---- MODULE Spec2Model ----
(***************************************************************************)
(* Resource Lifecycle Manager of the GCE integration-test harness          *)
(* (integration_test/gce-testing-internal/gce/gce_testing.go): creation of *)
(* a VM or a Managed-Instance-Group VM with bounded retry and cleanup on   *)
(* failure, and their deletion; and the waiters that poll the monitoring, *)
(* trace and logging backends.                                             *)
(*                                                                         *)
(* Time is counted in seconds.  An error value is the list of the messages *)
(* multierr has combined (the empty list is nil); a message is the set of  *)
(* the marker substrings it contains, which is all that the classifiers    *)
(* (strings.Contains on err.Error()) read.                                 *)
(***************************************************************************)
EXTENDS Integers, Sequences, FiniteSets, TLC

VARIABLES
    env,             \* what the environment does in this run: see Envs
    kind,            \* "vm": CreateInstance / DeleteInstance; "mig": the Managed-Instance-Group variants
    options,         \* VMOptions: [ImageSpec, Metadata]
    now,             \* wall clock, seconds
    pc,              \* position of the (single) test goroutine
    ctxDeadline,     \* deadline of ctx in CreateInstance (origCtx + 3*vmInitTimeout)
    attemptDeadline, \* deadline of attemptCtx in createFunc
    attempts,        \* creation attempts started by this Create call, counted up to MaxAttempts + 1
    vm,              \* the VM object of the current attempt: [ID, IPAddress, AlreadyDeleted]
    cloud,           \* which cloud resources named by vm exist: [inst, group, templ]
    made,            \* which of them this attempt brought into existence
    vmToReturn,      \* named result of the attempt: TRUE = non-nil object
    errToReturn,     \* named result of the attempt
    failedAt,        \* the step of the attempt that returned the error ("" = none)
    cleanupCalled,   \* the deferred function of this attempt invoked the deletion
    ret,             \* what Create returned: [vm, err]
    returnReason,    \* why the create retry loop ended
    delCaller,       \* who is running the deletion: "cleanup" (deferred) or "caller"
    delDeadline,     \* deadline of the deletion's own context
    delAttempt,      \* `attempt` of the deletion closure
    numTries,        \* numTries of backoff.WithMaxRetries
    delCmds,         \* instance / group deletion commands issued by the current deletion call
    templCmds,       \* instance-template deletion commands issued by the current deletion call
    migDeleted,      \* the group deletion loop of the current call ended with nil
    delLastErr,      \* raw error of the last deletion command
    delRet,          \* what the last finished deletion call returned
    callerDeletes,   \* deletion calls made by the test after Create returned
    test,            \* the *testing.T of a test that uses SetupVM: [pc, cleanups, outcome, cleaned]
    fn,              \* the backend waiter the test has called ("" = none)
    args,            \* its arguments: [minimumRequiredSeries, isPrometheus, maxAttempts]
    cancelAt,        \* when the ctx passed to the waiter is cancelled (NoCancel = never)
    wpc,             \* position in the waiter: "query", "sleep", "done" ("" = not called)
    qAttempt,        \* `attempt` of the waiter's loop
    queries,         \* queries the waiter has issued to its backend
    lastRes,         \* what the last query evaluated to: [data, err, panic]
    answers,         \* what the queries issued so far evaluated to (history)
    descriptorNotFoundErrCount, \* of AssertMetricMissing
    wret,            \* what the waiter returned: [data, err, panic]
    helper,          \* the helper the test exercises ("" = none)
    mutex,           \* the sync.Mutex of the helper's shared object: its holder, 0 = unlocked
    gpc,             \* position of each goroutine that calls the helper
    greg,            \* local variable of each goroutine
    zonePicker,      \* the weightedRoundRobin: [zones, cursor, handed]
    proc,            \* the subprocess of runCommand and its three builders
    xfer,            \* UploadContent / RunScriptRemotely: bucket object, remote commands
    logClients,      \* the logClientFactory: [clients, built]
    startup,         \* waitForStartLinux: polls, last state, retries
    hret             \* what the helper returned

vars == <<env, kind, options, now, pc, ctxDeadline, attemptDeadline, attempts,
          vm, cloud, made, vmToReturn, errToReturn, failedAt,
          cleanupCalled, ret, returnReason, delCaller, delDeadline, delAttempt, numTries,
          delCmds, templCmds, migDeleted, delLastErr, delRet, callerDeletes, test,
          fn, args, cancelAt, wpc, qAttempt, queries, lastRes, answers,
          descriptorNotFoundErrCount, wret,
          helper, mutex, gpc, greg, zonePicker, proc, xfer, logClients, startup, hret>>

attemptVars == <<vm, cloud, made, vmToReturn, errToReturn, failedAt, cleanupCalled>>
createVars  == <<ctxDeadline, attemptDeadline, attempts, ret, returnReason>>
delVars     == <<delCaller, delDeadline, delAttempt, numTries, delCmds, templCmds, migDeleted,
                 delLastErr, delRet>>
waitVars    == <<fn, args, cancelAt, wpc, qAttempt, queries, lastRes, answers,
                 descriptorNotFoundErrCount, wret>>
helperVars  == <<helper, mutex, gpc, greg, zonePicker, proc, xfer, logClients, startup, hret>>

-----------------------------------------------------------------------------
(* Program constants, in seconds. *)
vmInitTimeout     == 20 * 60
createBackoff     == 1 * 60
deleteTimeout     == 10 * 60
deleteBackoff     == 1 * 30
deleteMaxRetries  == 10
NoMaxRetries      == 0 - 1

(* Bounds of the model: the deletion calls the test makes after Create     *)
(* returned, and the creation attempts followed in a run with faults (a    *)
(* slow run is followed to its end, its attempts counted up to one more).  *)
MaxCallerDeletes  == 2
MaxAttempts       == 2

(* The environment of a run.  With creation faults ("createFaults") every  *)
(* command of a creation attempt can fail in every way the retry           *)
(* classifiers tell apart, and is answered at once or hangs until its      *)
(* context kills it; a deletion succeeds, is refused, finds nothing or     *)
(* hangs.  With deletion faults ("deleteFaults") a deletion can also fail  *)
(* with the errors that are retried, and creation does not fail.  In a     *)
(* slow run ("slow") commands take their time, and fail with a rate-limit  *)
(* or startup error or not at all.  In a "backend" run the test creates    *)
(* nothing and calls one of the backend waiters, in a "helper" run it      *)
(* calls one of the helpers.  A "config" run is a run with VMOptions that  *)
(* can be wrong, where commands fail as in a slow run; so is a "setup" run, *)
(* where the test gets its VM from SetupVM.  With "cleanupFaults" the       *)
(* cleanup of a failed attempt meets the deletion faults.                  *)
Envs == {"createFaults", "deleteFaults", "slow", "backend", "helper", "config", "setup",
         "cleanupFaults", "redelete"}
(* "redelete": after the test's first deletions the backend accepts every  *)
(* deletion of a resource that exists and answers "not found" for one that *)
(* does not.                                                               *)
Friendly == env = "redelete" /\ callerDeletes >= MaxCallerDeletes

CreateDurations == IF env = "createFaults" THEN {0, vmInitTimeout} ELSE {0}
VerifyDurations ==
    CASE env = "createFaults" -> {0, vmInitTimeout}
      [] env \in {"deleteFaults", "cleanupFaults", "redelete"} -> {0}
      [] OTHER -> {60, 10 * 60, 20 * 60}
DeleteDurations ==
    CASE env = "slow"          -> {0, 5 * 60, 570}
      [] env = "cleanupFaults" \/ Friendly -> {0}
      [] env = "redelete"      -> {0, 570, deleteTimeout}
      [] OTHER -> {0, deleteTimeout}

-----------------------------------------------------------------------------
(* Errors. *)
Nil == << >>
Err(tags) == << tags >>
Contains(err, s) == \E i \in 1..Len(err) : s \in err[i]

(* An append that loses its second operand. *)
multierrAppendLeftOnly(left, right) == left

multierrAppend(left, right) == left \o right

ctxErr    == Err({"context deadline exceeded"})
killedErr == Err({"signal: killed"})

startupFailedMessage        == "waitForStartLinux() failed: waiting for startup timed out"
windowsStartupFailedMessage == "waitForStartWindows() failed: ran out of attempts waiting for dummy command to run."
prepareSLESMessage          == "prepareSLES() failed"
stableTimeoutMessage        == "Timeout while waiting for group to become stable."

(* Image specs.  A spec is the list of the pieces of its text that the     *)
(* string tests of the source look at (strings.HasPrefix, HasSuffix,       *)
(* Contains).                                                              *)
SLES15          == <<"suse-", "cloud", ":", "sles-", "15">>
Windows2019Core == <<"windows-", "cloud", ":", "windows-", "2019", "-core">>
Debian12        == <<"debian-", "cloud", ":", "debian-", "12">>
NoProject       == <<"debian-", "12">>
ImageSpecs      == {SLES15, Windows2019Core, Debian12, NoProject}

HasPrefix(str, prefix) == Len(str) >= 1 /\ str[1] = prefix
HasSuffix(str, suffix) == Len(str) >= 1 /\ str[Len(str)] = suffix
StringsContains(str, piece) == \E i \in 1..Len(str) : str[i] = piece

IsWindows(imageSpec)     == HasPrefix(imageSpec, "windows-")
IsWindowsCore(imageSpec) == IsWindows(imageSpec) /\ HasSuffix(imageSpec, "-core")
IsSUSEImageSpec(imageSpec) ==
    \/ HasPrefix(imageSpec, "suse-")
    \/ HasPrefix(imageSpec, "opensuse-")
    \/ StringsContains(imageSpec, "sles-")

(* The error carries the text of the image spec. *)
gcloudFlagsFromImageSpec(imageSpec) ==
    IF StringsContains(imageSpec, ":") \/ StringsContains(imageSpec, "=")
    THEN Nil
    ELSE Err({"invalid imageSpec"} \cup {imageSpec[i] : i \in 1..Len(imageSpec)})

(* Metadata that takes any key of the test. *)
addFrameworkMetadataAnyKey(imageSpec, inputMetadata) == Nil

(* addFrameworkMetadata: the error for a key of the test's metadata (here  *)
(* the set of its keys) that the framework sets itself.                    *)
addFrameworkMetadata(imageSpec, inputMetadata) ==
    IF "enable-oslogin" \in inputMetadata
    THEN Err({"the 'enable-oslogin' metadata key is reserved for framework use"})
    ELSE IF "ssh-keys" \in inputMetadata
    THEN Err({"the 'ssh-keys' metadata key is reserved for framework use"})
    ELSE IF IsWindows(imageSpec)
    THEN IF "sysprep-specialize-script-cmd" \in inputMetadata
         THEN Err({"you cannot pass a sysprep script for Windows instances"})
         ELSE IF "enable-windows-ssh" \in inputMetadata
         THEN Err({"the 'enable-windows-ssh' metadata key is reserved for framework use"})
         ELSE Nil
    ELSE IF "startup-script" \in inputMetadata
    THEN Err({"the 'startup-script' metadata key is reserved for future use"})
    ELSE Nil

additionalCreateInstanceArgs(opts) ==
    LET err == addFrameworkMetadata(opts.ImageSpec, opts.Metadata)
    IN IF err # Nil
       THEN Err({"additionalCreateInstanceArgs() could not construct valid metadata"}
                \cup err[1])
       ELSE gcloudFlagsFromImageSpec(opts.ImageSpec)

Min(a, b) == IF a <= b THEN a ELSE b
Max(a, b) == IF a >= b THEN a ELSE b


-----------------------------------------------------------------------------
(* runCommand under a context with deadline `deadline`: the environment    *)
(* takes d seconds and answers o = [err, effect].  exec.CommandContext     *)
(* does not start the process when the context is already done, and kills  *)
(* it when the deadline passes while it runs; a killed command may or may  *)
(* not have taken effect in the cloud.                                     *)
RunGcloud(deadline, d, o) ==
    IF now >= deadline
    THEN [t |-> now, err |-> ctxErr, effect |-> FALSE, started |-> FALSE]
    ELSE IF now + d >= deadline
    THEN [t |-> deadline, err |-> killedErr, effect |-> o.effect, started |-> TRUE]
    ELSE [t |-> now + d, err |-> o.err, effect |-> o.effect, started |-> TRUE]

(* What the provisioning CLI may answer to a creation command: success, or *)
(* an error with or without the resource having been created.              *)
CreateErrors == {Err({"Quota"}), Err({"Internal error"}), Err({"currently unavailable"}),
                 Err({"database is locked"}), Err({"permission denied"})}
CreateOutcomes ==
    {[err |-> Nil, effect |-> TRUE]}
        \cup (CASE env = "createFaults" -> [err : CreateErrors, effect : BOOLEAN]
                [] env \in {"deleteFaults", "redelete"} -> {}
                [] OTHER -> {[err |-> Err({"Quota"}), effect |-> FALSE]})

MIGStepErrors == {Err({"Quota"}), Err({"permission denied"})}
MIGStepOutcomes ==
    {[err |-> Nil, effect |-> TRUE]}
        \cup (CASE env = "createFaults" -> [err : MIGStepErrors, effect : BOOLEAN]
                [] env \in {"deleteFaults", "redelete"} -> {}
                [] OTHER -> {[err |-> Err({"Quota"}), effect |-> FALSE]})
WaitStableOutcomes ==
    {[err |-> Nil, effect |-> TRUE]}
        \cup (CASE env = "createFaults" ->
                     [err : {Err({stableTimeoutMessage}), Err({"permission denied"})},
                      effect : {FALSE}]
                [] env \in {"deleteFaults", "redelete"} -> {}
                [] OTHER -> {[err |-> Err({stableTimeoutMessage}), effect |-> FALSE]})
ListOutcomes ==
    {[err |-> Nil, effect |-> FALSE]}
        \cup (IF env = "createFaults"
              THEN [err : MIGStepErrors, effect : {FALSE}] ELSE {})
ExtractOutcomes ==
    CASE env = "createFaults"  -> {"ok", "badID", "badIP"}
      [] env = "cleanupFaults" -> {"ok", "badID"}
      [] OTHER -> {"ok"}

(* What the CLI may answer to a deletion command for a resource that       *)
(* exists (exists = TRUE) or not.  effect = TRUE: the resource is gone     *)
(* afterwards.  "not found" is the answer for a resource that is not (or   *)
(* no longer: time-to-live, concurrent removal) there.                     *)
DeleteOutcomes(exists) ==
    (IF exists THEN {[err |-> Nil, effect |-> TRUE]} ELSE {})
        \cup (IF (env # "slow" /\ ~Friendly) \/ ~exists
              THEN {[err |-> Err({"not found"}), effect |-> TRUE]} ELSE {})
        \cup (IF env # "slow" /\ ~Friendly
              THEN {[err |-> Err({"permission denied"}), effect |-> FALSE]} ELSE {})
        \cup (IF env = "deleteFaults" \/ (env = "redelete" /\ ~Friendly)
              THEN {[err |-> Err({"Quota"}), effect |-> FALSE],
                    [err |-> Err({"Error 50"}), effect |-> FALSE],
                    [err |-> Err({"Error 50"}), effect |-> TRUE]}
              ELSE {})
        \cup (IF env = "cleanupFaults" /\ delCaller = "cleanup"
              THEN {[err |-> Err({"Quota"}), effect |-> FALSE]}
              ELSE {})

-----------------------------------------------------------------------------
(* Error classifiers. *)
(* A classifier that forgets to ask for the image before it retries a      *)
(* startup failure.                                                        *)
shouldRetryCreateVMAnyImage(err, opts) ==
    \/ Contains(err, "Quota")
    \/ Contains(err, "Internal error")
    \/ Contains(err, "currently unavailable")
    \/ Contains(err, "database is locked")
    \/ Contains(err, windowsStartupFailedMessage)
    \/ Contains(err, startupFailedMessage)
    \/ Contains(err, prepareSLESMessage)

shouldRetryCreateVM(err, opts) ==
    \/ Contains(err, "Quota")
    \/ Contains(err, "Internal error")
    \/ Contains(err, "currently unavailable")
    \/ Contains(err, "database is locked")
    \/ (IsWindowsCore(opts.ImageSpec) /\ Contains(err, windowsStartupFailedMessage))
    \/ (IsSUSEImageSpec(opts.ImageSpec) /\ Contains(err, startupFailedMessage))
    \/ Contains(err, prepareSLESMessage)

shouldRetryCreateManagedInstanceGroupVM(err, opts) ==
    \/ shouldRetryCreateVM(err, opts)
    \/ Contains(err, stableTimeoutMessage)

(* The result of an operation handed to backoff.Retry: err, and whether it *)
(* is wrapped in backoff.Permanent.                                        *)
Op(err, permanent) == [err |-> err, permanent |-> permanent]

(* A handler that takes "not found" for success on the first attempt too. *)
handleDeleteErrorAnyAttempt(err, attempt) ==
    IF err = Nil THEN Op(Nil, FALSE)
    ELSE IF Contains(err, "Quota") THEN Op(err, FALSE)
    ELSE IF Contains(err, "Error 50") THEN Op(err, FALSE)
    ELSE IF Contains(err, "not found") THEN Op(Nil, FALSE)
    ELSE Op(err, TRUE)

handleDeleteError(err, attempt) ==
    IF err = Nil THEN Op(Nil, FALSE)
    ELSE IF Contains(err, "Quota") THEN Op(err, FALSE)
    ELSE IF Contains(err, "Error 50") THEN Op(err, FALSE)
    ELSE IF Contains(err, "not found") /\ attempt > 1 THEN Op(Nil, FALSE)
    ELSE Op(err, TRUE)

(* One turn of backoff.Retry after the operation returned op at time t:    *)
(* nil ends the loop, a Permanent error ends it with the wrapped error;    *)
(* otherwise NextBackOff (WithContext over WithMaxRetries over a constant  *)
(* backoff b) answers Stop when the context is done or n retries equal     *)
(* max, and else the loop sleeps b in a select with ctx.Done().  When the  *)
(* timer and the deadline fall on the same instant, tie names the case the *)
(* select takes.                                                           *)
(* A retry loop that does not count its retries. *)
RetryNextNoMaxRetries(op, t, deadline, n, max, b, tie) ==
    IF op.err = Nil
    THEN [done |-> TRUE, err |-> Nil, t |-> t, n |-> n, why |-> "ok", slept |-> FALSE]
    ELSE IF op.permanent
    THEN [done |-> TRUE, err |-> op.err, t |-> t, n |-> n, why |-> "permanent", slept |-> FALSE]
    ELSE IF t >= deadline
    THEN [done |-> TRUE, err |-> ctxErr, t |-> t, n |-> n, why |-> "deadline", slept |-> FALSE]
    ELSE IF t + b > deadline \/ (t + b = deadline /\ tie = "ctx")
    THEN [done |-> TRUE, err |-> ctxErr, t |-> deadline, n |-> n + 1, why |-> "deadline", slept |-> TRUE]
    ELSE [done |-> FALSE, err |-> op.err, t |-> t + b, n |-> n + 1, why |-> "retry", slept |-> TRUE]

(* A retry loop whose sleep does not watch the context. *)
RetryNextBlindSleep(op, t, deadline, n, max, b, tie) ==
    IF op.err = Nil
    THEN [done |-> TRUE, err |-> Nil, t |-> t, n |-> n, why |-> "ok", slept |-> FALSE]
    ELSE IF op.permanent
    THEN [done |-> TRUE, err |-> op.err, t |-> t, n |-> n, why |-> "permanent", slept |-> FALSE]
    ELSE IF t >= deadline
    THEN [done |-> TRUE, err |-> ctxErr, t |-> t, n |-> n, why |-> "deadline", slept |-> FALSE]
    ELSE IF max >= 0 /\ n >= max
    THEN [done |-> TRUE, err |-> op.err, t |-> t, n |-> n, why |-> "maxRetries", slept |-> FALSE]
    ELSE [done |-> FALSE, err |-> op.err, t |-> t + b, n |-> n + 1, why |-> "retry", slept |-> TRUE]

RetryNext(op, t, deadline, n, max, b, tie) ==
    IF op.err = Nil
    THEN [done |-> TRUE, err |-> Nil, t |-> t, n |-> n, why |-> "ok", slept |-> FALSE]
    ELSE IF op.permanent
    THEN [done |-> TRUE, err |-> op.err, t |-> t, n |-> n, why |-> "permanent", slept |-> FALSE]
    ELSE IF t >= deadline
    THEN [done |-> TRUE, err |-> ctxErr, t |-> t, n |-> n, why |-> "deadline", slept |-> FALSE]
    ELSE IF max >= 0 /\ n >= max
    THEN [done |-> TRUE, err |-> op.err, t |-> t, n |-> n, why |-> "maxRetries", slept |-> FALSE]
    ELSE IF t + b > deadline \/ (t + b = deadline /\ tie = "ctx")
    THEN [done |-> TRUE, err |-> ctxErr, t |-> deadline, n |-> n + 1, why |-> "deadline", slept |-> TRUE]
    ELSE [done |-> FALSE, err |-> op.err, t |-> t + b, n |-> n + 1, why |-> "retry", slept |-> TRUE]

Ties == {"ctx", "timer"}


-----------------------------------------------------------------------------
NewVM   == [ID |-> FALSE, IPAddress |-> FALSE, AlreadyDeleted |-> FALSE]
(* The resources of the current attempt, and under `earlier` the instances *)
(* that earlier attempts of the call left in the project: those that no    *)
(* deletion command was issued for, and those whose deletion failed.       *)
NoCloud == [inst |-> FALSE, group |-> FALSE, templ |-> FALSE,
            earlier |-> [undeleted |-> 0, deleteFailed |-> 0]]

(* The project as the next attempt finds it: its own resources are new,    *)
(* the instance of the attempt before, if it is still there, stays.        *)
nextAttemptCloud ==
    [NoCloud EXCEPT !.earlier =
        IF ~cloud.inst THEN cloud.earlier
        ELSE IF cleanupCalled
        THEN [cloud.earlier EXCEPT !.deleteFailed = Min(@ + 1, MaxAttempts)]
        ELSE [cloud.earlier EXCEPT !.undeleted = Min(@ + 1, MaxAttempts)]]

InitRest ==
    /\ now = 0
    /\ pc = "start"
    /\ ctxDeadline = 0
    /\ attemptDeadline = 0
    /\ attempts = 0
    /\ vm = NewVM
    /\ cloud = NoCloud
    /\ made = NoCloud
    /\ vmToReturn = FALSE
    /\ errToReturn = Nil
    /\ failedAt = ""
    /\ cleanupCalled = FALSE
    /\ ret = [vm |-> FALSE, err |-> Nil]
    /\ returnReason = ""
    /\ delCaller = ""
    /\ delDeadline = 0
    /\ delAttempt = 0
    /\ numTries = 0
    /\ delCmds = 0
    /\ templCmds = 0
    /\ migDeleted = FALSE
    /\ delLastErr = Nil
    /\ delRet = Nil
    /\ callerDeletes = 0
    /\ test = [pc |-> IF env = "setup" THEN "setup" ELSE "", cleanups |-> 0,
               outcome |-> "", cleaned |-> FALSE]

(* The test exercises no helper. *)
NoHelper ==
    /\ helper = ""
    /\ mutex = 0
    /\ gpc = << >>
    /\ greg = << >>
    /\ zonePicker = << >>
    /\ proc = << >>
    /\ xfer = << >>
    /\ logClients = << >>
    /\ startup = << >>
    /\ hret = << >>

(* The test has called no backend waiter. *)
NoWaiter ==
    /\ fn = ""
    /\ args = [minimumRequiredSeries |-> 1, isPrometheus |-> FALSE, maxAttempts |-> 0]
    /\ cancelAt = 0 - 1 \* never
    /\ wpc = ""
    /\ qAttempt = 0
    /\ queries = 0
    /\ answers = {}
    /\ lastRes = [data |-> << >>, err |-> Nil, panic |-> FALSE]
    /\ descriptorNotFoundErrCount = 0
    /\ wret = [data |-> << >>, err |-> Nil, panic |-> FALSE]

Init ==
    /\ env = "createFaults"
    /\ kind \in {"vm", "mig"}
    /\ options \in [ImageSpec : ImageSpecs, Metadata : {{}}]
    /\ InitRest
    /\ NoWaiter
    /\ NoHelper

-----------------------------------------------------------------------------
(* CreateInstance / CreateManagedInstanceGroupVM: the overall context.     *)
CreateEntry ==
    /\ pc = "start"
    /\ ctxDeadline' = now + 3 * vmInitTimeout
    /\ pc' = "createFunc"
    /\ UNCHANGED <<waitVars, helperVars, test>>
    /\ UNCHANGED <<env, kind, options, now, attemptDeadline, attempts, ret, returnReason,
                   callerDeletes>>
    /\ UNCHANGED attemptVars
    /\ UNCHANGED delVars

CreateInstance ==
    /\ kind = "vm"
    /\ CreateEntry

CreateManagedInstanceGroupVM ==
    /\ kind = "mig"
    /\ CreateEntry

(* A `return vm, err` that hands the VM back whatever the error. *)
ReturnVMAlways(err) == TRUE

(* The object a `return` statement of the attempt hands back: the VM with  *)
(* a nil error, nil with an error.                                         *)
ReturnVM(err) == err = Nil

(* A `return` statement of the attempt at `step`: (nil, err), or (vm, nil) *)
(* at the end.                                                             *)
Return(step, err, next) ==
    /\ errToReturn' = err
    /\ failedAt' = IF err = Nil THEN "" ELSE step
    /\ vmToReturn' = ReturnVM(err)
    /\ pc' = next

(* A step of the attempt succeeded and the attempt goes on. *)
Proceed(next) ==
    /\ errToReturn' = Nil
    /\ failedAt' = ""
    /\ vmToReturn' = FALSE
    /\ pc' = next

(* createFunc up to the provisioning command: the attempt context, the VM  *)
(* object and the arguments.                                               *)
createFunc ==
    /\ pc = "createFunc"
    /\ env # "slow" => attempts < MaxAttempts
    /\ attempts' = Min(attempts + 1, MaxAttempts + 1)
    /\ attemptDeadline' = Min(ctxDeadline, now + vmInitTimeout)
    /\ vm' = NewVM
    /\ cloud' = nextAttemptCloud
    /\ made' = NoCloud
    /\ cleanupCalled' = FALSE
    /\ delCaller' = ""
    /\ delDeadline' = 0
    /\ delAttempt' = 0
    /\ numTries' = 0
    /\ delCmds' = 0
    /\ templCmds' = 0
    /\ migDeleted' = FALSE
    /\ delLastErr' = Nil
    /\ delRet' = Nil
    /\ LET err == additionalCreateInstanceArgs(options) IN
         IF err # Nil
         THEN Return("args", err, "attemptDone")
         ELSE Proceed(IF kind = "vm" THEN "create" ELSE "template")
    /\ UNCHANGED <<waitVars, helperVars, test>>
    /\ UNCHANGED <<env, kind, options, now, ctxDeadline, ret, returnReason, callerDeletes>>

(* attemptCreateInstance: `gcloud compute instances create`.  An error     *)
(* returns at once, before the deferred cleanup is registered.             *)
RunGcloudCreate ==
    /\ pc = "create"
    /\ \E d \in CreateDurations, o \in CreateOutcomes :
         LET r == RunGcloud(attemptDeadline, d, o) IN
           /\ now' = r.t
           /\ cloud' = [cloud EXCEPT !.inst = r.effect]
           /\ made' = [made EXCEPT !.inst = r.effect]
           /\ IF r.err # Nil
              THEN Return("create", r.err, "attemptDone")
              ELSE Proceed("extract")
    /\ UNCHANGED <<waitVars, helperVars, test>>
    /\ UNCHANGED <<env, kind, options, vm, cleanupCalled, callerDeletes>>
    /\ UNCHANGED createVars
    /\ UNCHANGED delVars

(* extractID and extractIPAddress on the command's output. *)
extract ==
    /\ pc = "extract"
    /\ \E o \in ExtractOutcomes :
         CASE o = "ok" ->
                /\ vm' = [vm EXCEPT !.ID = TRUE, !.IPAddress = TRUE]
                /\ Proceed("verify")
           [] o = "badID" ->
                /\ vm' = vm
                /\ Return("extractID", Err({"could not parse JSON"}), "defer")
           [] o = "badIP" ->
                /\ vm' = [vm EXCEPT !.ID = TRUE]
                /\ Return("extractIPAddress", Err({"empty NetworkInterfaces"}), "defer")
    /\ UNCHANGED <<waitVars, helperVars, test>>
    /\ UNCHANGED <<env, kind, options, now, cloud, made, cleanupCalled, callerDeletes>>
    /\ UNCHANGED createVars
    /\ UNCHANGED delVars

(* The errors verifyVMCreation can return for an image. *)
VerifyErrors(opts) ==
    (IF env \in {"deleteFaults", "redelete"} THEN {}
     ELSE {Err({IF IsWindows(opts.ImageSpec) THEN windowsStartupFailedMessage
                ELSE startupFailedMessage})})
      \cup (IF env = "createFaults" THEN {Err({"remediation failed"})} ELSE {})
      \cup (IF env = "createFaults" /\ IsSUSEImageSpec(opts.ImageSpec)
            THEN {Err({prepareSLESMessage})} ELSE {})

(* verifyVMCreation: waitForStart, getOS and the remediation steps, all    *)
(* under the attempt context; past its deadline no remote command works.   *)
verifyVMCreation ==
    /\ pc = "verify"
    /\ \E d \in VerifyDurations, o \in {Nil} \cup VerifyErrors(options) :
         LET over == now + d >= attemptDeadline
         IN /\ over => o # Nil
            /\ now' = IF over THEN Max(now, attemptDeadline) ELSE now + d
            /\ Return("verify", o, "defer")
    /\ UNCHANGED <<waitVars, helperVars, test>>
    /\ UNCHANGED <<env, kind, options, vm, cloud, made, cleanupCalled, callerDeletes>>
    /\ UNCHANGED createVars
    /\ UNCHANGED delVars

(* The deferred function of the attempt: on an error it deletes what the   *)
(* attempt created.                                                        *)
deferred ==
    /\ pc = "defer"
    /\ IF errToReturn # Nil
       THEN /\ cleanupCalled' = TRUE
            /\ delCaller' = "cleanup"
            /\ pc' = "delete"
       ELSE /\ pc' = "attemptDone"
            /\ UNCHANGED <<cleanupCalled, delCaller>>
    /\ UNCHANGED <<waitVars, helperVars, test>>
    /\ UNCHANGED <<env, kind, options, now, vm, cloud, made, vmToReturn, errToReturn,
                   failedAt, callerDeletes, delDeadline, delAttempt, numTries,
                   delCmds, templCmds, migDeleted, delLastErr, delRet>>
    /\ UNCHANGED createVars


-----------------------------------------------------------------------------
(* Deletion. *)

(* A deletion that does not look at AlreadyDeleted. *)
SkipDeleteNever(v) == FALSE

(* "Does nothing if the VM was already deleted." *)
SkipDelete(v) == v.AlreadyDeleted

(* The deletion call returns err to whoever called it: the deferred        *)
(* function of the attempt, which appends it to the attempt's error and    *)
(* drops the VM, or the test.                                              *)
ReturnFromDelete(err) ==
    /\ delRet' = err
    /\ IF delCaller = "cleanup"
       THEN /\ errToReturn' = multierrAppend(errToReturn, err)
            /\ vmToReturn' = FALSE
            /\ pc' = "attemptDone"
       ELSE /\ pc' = "returned"
            /\ UNCHANGED <<errToReturn, vmToReturn>>

(* A deletion context derived from the context of whoever calls the       *)
(* deletion: it is done as soon as the caller's is.                        *)
deleteContextOfCaller(t) ==
    Min(t + deleteTimeout, IF delCaller = "cleanup" THEN attemptDeadline ELSE ctxDeadline)

(* context.WithTimeout(context.Background(), 10*time.Minute) at time t:    *)
(* the deadline of the deletion's own context, which has no parent.        *)
deleteContext(t) == t + deleteTimeout

(* A deletion that marks the VM whatever backoff.Retry returned. *)
markDeletedAlways(v, err) == [v EXCEPT !.AlreadyDeleted = TRUE]

(* The end of a deletion: `if err == nil { vm.AlreadyDeleted = true }`. *)
markDeleted(v, err) == IF err = Nil THEN [v EXCEPT !.AlreadyDeleted = TRUE] ELSE v

(* Entry of DeleteInstance and of DeleteManagedInstanceGroupVM. *)
DeleteEntry(loop) ==
    /\ pc = "delete"
    /\ delCmds' = 0
    /\ templCmds' = 0
    /\ migDeleted' = FALSE
    /\ IF SkipDelete(vm)
       THEN /\ ReturnFromDelete(Nil)
            /\ UNCHANGED <<delDeadline, delAttempt, numTries, delLastErr>>
       ELSE /\ delDeadline' = deleteContext(now)
            /\ delAttempt' = 0
            /\ numTries' = 0
            /\ delLastErr' = Nil
            /\ pc' = loop
            /\ UNCHANGED <<errToReturn, vmToReturn, delRet>>
    /\ UNCHANGED <<waitVars, helperVars, test>>
    /\ UNCHANGED <<env, kind, options, now, vm, cloud, made, failedAt,
                   cleanupCalled, delCaller, callerDeletes>>
    /\ UNCHANGED createVars

DeleteInstance ==
    /\ kind = "vm"
    /\ DeleteEntry("tryDelete")

DeleteManagedInstanceGroupVM ==
    /\ kind = "mig"
    /\ DeleteEntry("tryDeleteMIG")

(* tryDelete with the turn of backoff.Retry that follows it. *)
tryDelete ==
    /\ pc = "tryDelete"
    /\ \E d \in DeleteDurations, o \in DeleteOutcomes(cloud.inst), tie \in Ties :
         LET r  == RunGcloud(delDeadline, d, o)
             a  == delAttempt + 1
             nx == RetryNext(handleDeleteError(r.err, a), r.t, delDeadline, numTries,
                             deleteMaxRetries, deleteBackoff, tie)
         IN /\ delAttempt' = a
            /\ delCmds' = delCmds + (IF r.started THEN 1 ELSE 0)
            /\ delLastErr' = r.err
            /\ cloud' = [cloud EXCEPT !.inst = @ /\ ~r.effect]
            /\ now' = nx.t
            /\ numTries' = nx.n
            /\ IF nx.done
               THEN /\ vm' = markDeleted(vm, nx.err)
                    /\ ReturnFromDelete(nx.err)
               ELSE /\ pc' = "tryDelete"
                    /\ UNCHANGED <<vm, errToReturn, vmToReturn, delRet>>
    /\ UNCHANGED <<waitVars, helperVars, test>>
    /\ UNCHANGED <<env, kind, options, made, failedAt, cleanupCalled,
                   delCaller, delDeadline, templCmds, migDeleted, callerDeletes>>
    /\ UNCHANGED createVars

(* A deletion that goes on to the instance template whatever the group    *)
(* deletion returned.                                                      *)
TemplateNextAlways(err) == TRUE

(* After the group deletion loop: an error is returned, nil goes on to the *)
(* instance template.                                                      *)
TemplateNext(err) == err = Nil

(* tryDeleteMIG with the turn of backoff.Retry that follows it; deleting   *)
(* the group removes its instance.                                         *)
tryDeleteMIG ==
    /\ pc = "tryDeleteMIG"
    /\ \E d \in DeleteDurations, o \in DeleteOutcomes(cloud.group), tie \in Ties :
         LET r  == RunGcloud(delDeadline, d, o)
             a  == delAttempt + 1
             nx == RetryNext(handleDeleteError(r.err, a), r.t, delDeadline, numTries,
                             deleteMaxRetries, deleteBackoff, tie)
         IN /\ delCmds' = delCmds + (IF r.started THEN 1 ELSE 0)
            /\ delLastErr' = r.err
            /\ cloud' = [cloud EXCEPT !.group = @ /\ ~r.effect, !.inst = @ /\ ~r.effect]
            /\ now' = nx.t
            /\ IF ~nx.done
               THEN /\ pc' = "tryDeleteMIG"
                    /\ delAttempt' = a
                    /\ numTries' = nx.n
                    /\ UNCHANGED <<errToReturn, vmToReturn, delRet, migDeleted>>
               ELSE IF TemplateNext(nx.err)
               THEN /\ pc' = "tryDeleteTemplate"
                    /\ migDeleted' = (nx.err = Nil)
                    /\ delAttempt' = 0
                    /\ numTries' = 0
                    /\ UNCHANGED <<errToReturn, vmToReturn, delRet>>
               ELSE /\ ReturnFromDelete(nx.err)
                    /\ delAttempt' = a
                    /\ numTries' = nx.n
                    /\ UNCHANGED migDeleted
    /\ UNCHANGED <<waitVars, helperVars, test>>
    /\ UNCHANGED <<env, kind, options, vm, made, failedAt, cleanupCalled,
                   delCaller, delDeadline, templCmds, callerDeletes>>
    /\ UNCHANGED createVars

(* tryDeleteTemplate with the turn of backoff.Retry that follows it, under *)
(* the same context and backoff policy.                                    *)
tryDeleteTemplate ==
    /\ pc = "tryDeleteTemplate"
    /\ \E d \in DeleteDurations, o \in DeleteOutcomes(cloud.templ), tie \in Ties :
         LET r  == RunGcloud(delDeadline, d, o)
             a  == delAttempt + 1
             nx == RetryNext(handleDeleteError(r.err, a), r.t, delDeadline, numTries,
                             deleteMaxRetries, deleteBackoff, tie)
         IN /\ delAttempt' = a
            /\ templCmds' = templCmds + (IF r.started THEN 1 ELSE 0)
            /\ delLastErr' = r.err
            /\ cloud' = [cloud EXCEPT !.templ = @ /\ ~r.effect]
            /\ now' = nx.t
            /\ numTries' = nx.n
            /\ IF nx.done
               THEN /\ vm' = markDeleted(vm, nx.err)
                    /\ ReturnFromDelete(nx.err)
               ELSE /\ pc' = "tryDeleteTemplate"
                    /\ UNCHANGED <<vm, errToReturn, vmToReturn, delRet>>
    /\ UNCHANGED <<waitVars, helperVars, test>>
    /\ UNCHANGED <<env, kind, options, made, failedAt, cleanupCalled,
                   delCaller, delDeadline, delCmds, migDeleted, callerDeletes>>
    /\ UNCHANGED createVars


-----------------------------------------------------------------------------
(* attemptCreateManagedInstanceGroupVM. *)

(* Step #1: the instance template.  An error returns at once, before the   *)
(* deferred cleanup is registered.                                         *)
createTemplate ==
    /\ pc = "template"
    /\ \E d \in CreateDurations, o \in MIGStepOutcomes :
         LET r == RunGcloud(attemptDeadline, d, o) IN
           /\ now' = r.t
           /\ cloud' = [cloud EXCEPT !.templ = r.effect]
           /\ made' = [made EXCEPT !.templ = r.effect]
           /\ IF r.err # Nil
              THEN Return("template", r.err, "attemptDone")
              ELSE Proceed("group")
    /\ UNCHANGED <<waitVars, helperVars, test>>
    /\ UNCHANGED <<env, kind, options, vm, cleanupCalled, callerDeletes>>
    /\ UNCHANGED createVars
    /\ UNCHANGED delVars

(* Step #2: the empty managed instance group. *)
createMIG ==
    /\ pc = "group"
    /\ \E d \in CreateDurations, o \in MIGStepOutcomes :
         LET r == RunGcloud(attemptDeadline, d, o) IN
           /\ now' = r.t
           /\ cloud' = [cloud EXCEPT !.group = r.effect]
           /\ made' = [made EXCEPT !.group = r.effect]
           /\ IF r.err # Nil
              THEN Return("group", r.err, "defer")
              ELSE Proceed("createInstance")
    /\ UNCHANGED <<waitVars, helperVars, test>>
    /\ UNCHANGED <<env, kind, options, vm, cleanupCalled, callerDeletes>>
    /\ UNCHANGED createVars
    /\ UNCHANGED delVars

(* Step #3: the test VM in the group. *)
createVM ==
    /\ pc = "createInstance"
    /\ \E d \in CreateDurations, o \in MIGStepOutcomes :
         LET r == RunGcloud(attemptDeadline, d, o) IN
           /\ now' = r.t
           /\ cloud' = [cloud EXCEPT !.inst = r.effect]
           /\ made' = [made EXCEPT !.inst = r.effect]
           /\ IF r.err # Nil
              THEN Return("createInstance", r.err, "defer")
              ELSE Proceed("waitStable")
    /\ UNCHANGED <<waitVars, helperVars, test>>
    /\ UNCHANGED <<env, kind, options, vm, cleanupCalled, callerDeletes>>
    /\ UNCHANGED createVars
    /\ UNCHANGED delVars

(* Step #4: wait until the group is stable. *)
waitUntilStable ==
    /\ pc = "waitStable"
    /\ \E d \in CreateDurations, o \in WaitStableOutcomes :
         LET r == RunGcloud(attemptDeadline, d, o) IN
           /\ now' = r.t
           /\ IF r.err # Nil
              THEN Return("waitStable", r.err, "defer")
              ELSE Proceed("list")
    /\ UNCHANGED <<waitVars, helperVars, test>>
    /\ UNCHANGED <<env, kind, options, vm, cloud, made, cleanupCalled, callerDeletes>>
    /\ UNCHANGED createVars
    /\ UNCHANGED delVars

(* Step #5: list the new VM. *)
listVM ==
    /\ pc = "list"
    /\ \E d \in CreateDurations, o \in ListOutcomes :
         LET r == RunGcloud(attemptDeadline, d, o) IN
           /\ now' = r.t
           /\ IF r.err # Nil
              THEN Return("list", r.err, "defer")
              ELSE Proceed("extract")
    /\ UNCHANGED <<waitVars, helperVars, test>>
    /\ UNCHANGED <<env, kind, options, vm, cloud, made, cleanupCalled, callerDeletes>>
    /\ UNCHANGED createVars
    /\ UNCHANGED delVars

-----------------------------------------------------------------------------
(* The end of createFunc and the turn of backoff.Retry that follows it.    *)

shouldRetry(err, opts) ==
    IF kind = "vm" THEN shouldRetryCreateVM(err, opts)
    ELSE shouldRetryCreateManagedInstanceGroupVM(err, opts)

(* What CreateInstance returns once backoff.Retry returned err. *)
CreateReturn(v, err) ==
    IF err # Nil THEN [vm |-> FALSE, err |-> err] ELSE [vm |-> v, err |-> Nil]

Retry ==
    /\ pc = "attemptDone"
    /\ \E tie \in Ties :
         LET permanent == errToReturn # Nil /\ ~shouldRetry(errToReturn, options)
             nx == RetryNext(Op(errToReturn, permanent), now, ctxDeadline, 0,
                             NoMaxRetries, createBackoff, tie)
         IN /\ now' = nx.t
            /\ IF nx.done
               THEN /\ pc' = "returned"
                    /\ ret' = CreateReturn(vmToReturn, nx.err)
                    /\ returnReason' = nx.why
               ELSE /\ pc' = "createFunc"
                    /\ UNCHANGED <<ret, returnReason>>
    /\ UNCHANGED <<waitVars, helperVars, test>>
    /\ UNCHANGED <<env, kind, options, ctxDeadline, attemptDeadline, attempts, callerDeletes>>
    /\ UNCHANGED attemptVars
    /\ UNCHANGED delVars

(* The test deletes the VM it was given (SetupVM's cleanup, or the test    *)
(* itself), possibly more than once.                                       *)
CallerDelete ==
    /\ pc = "returned"
    /\ ret.err = Nil
    /\ test.pc \in {"", "body"}
    /\ callerDeletes < MaxCallerDeletes \/ env = "redelete"
    /\ callerDeletes' = Min(callerDeletes + 1, MaxCallerDeletes)
    /\ delCaller' = "caller"
    /\ pc' = "delete"
    /\ UNCHANGED <<waitVars, helperVars, test>>
    /\ UNCHANGED <<env, kind, options, now, delDeadline, delAttempt, numTries, delCmds,
                   templCmds, migDeleted, delLastErr, delRet>>
    /\ UNCHANGED attemptVars
    /\ UNCHANGED createVars

(* A test that creates a VM or a Managed-Instance-Group VM and deletes it,  *)
(* where creation meets faults.                                            *)
Next ==
    \/ CreateInstance
    \/ CreateManagedInstanceGroupVM
    \/ createFunc
    \/ RunGcloudCreate
    \/ createTemplate
    \/ createMIG
    \/ createVM
    \/ waitUntilStable
    \/ listVM
    \/ extract
    \/ verifyVMCreation
    \/ deferred
    \/ DeleteInstance
    \/ DeleteManagedInstanceGroupVM
    \/ tryDelete
    \/ tryDeleteMIG
    \/ tryDeleteTemplate
    \/ Retry
    \/ CallerDelete

Spec == Init /\ [][Next]_vars

(* The same test where deletion meets faults.  The image plays no part in  *)
(* deletion.                                                               *)
InitDelete ==
    /\ env = "deleteFaults"
    /\ kind \in {"vm", "mig"}
    /\ options = [ImageSpec |-> Debian12, Metadata |-> {}]
    /\ InitRest
    /\ NoWaiter
    /\ NoHelper

SpecDelete == InitDelete /\ [][Next]_vars

(* The same test in a slow environment, followed until Create returns and  *)
(* the VM is deleted.                                                      *)
InitSlow ==
    /\ env = "slow"
    /\ kind \in {"vm", "mig"}
    /\ options \in [ImageSpec : ImageSpecs, Metadata : {{}}]
    /\ InitRest
    /\ NoWaiter
    /\ NoHelper

SpecSlow == InitSlow /\ [][Next]_vars

(* The same test with the VMOptions a test can get wrong: an image spec    *)
(* that is missing or lacks its delimiter, and metadata with a key of the  *)
(* test's own or one that the framework sets.  Commands fail with a        *)
(* rate-limit or startup error or not at all.                              *)
InitConfig ==
    /\ env = "config"
    /\ kind \in {"vm", "mig"}
    /\ options \in [ImageSpec : ImageSpecs \cup {<< >>, <<"debian-", "cloud", "=", "debian-", "12">>},
                    Metadata  : {{}, {"test-key"}, {"enable-oslogin"}, {"ssh-keys"},
                                 {"startup-script"}, {"sysprep-specialize-script-cmd"},
                                 {"enable-windows-ssh"}, {"test-key", "ssh-keys"}}]
    /\ InitRest
    /\ NoWaiter
    /\ NoHelper

SpecConfig == InitConfig /\ [][Next]_vars

(* The same test where the cleanup of a failed attempt meets faults: the   *)
(* output of a creation command may not parse, and the deletion that      *)
(* cleans up can run into the quota of the project.                       *)
InitCleanup ==
    /\ env = "cleanupFaults"
    /\ kind \in {"vm", "mig"}
    /\ options = [ImageSpec |-> Debian12, Metadata |-> {}]
    /\ InitRest
    /\ NoWaiter
    /\ NoHelper

SpecCleanup == InitCleanup /\ [][Next]_vars

(* The same test where the test keeps calling the deletion: the first      *)
(* calls meet faults, the later ones a backend that works.                 *)
InitRedelete ==
    /\ env = "redelete"
    /\ kind \in {"vm", "mig"}
    /\ options = [ImageSpec |-> Debian12, Metadata |-> {}]
    /\ InitRest
    /\ NoWaiter
    /\ NoHelper

(* The test goroutine keeps running: a step that can be taken is           *)
(* eventually taken.                                                       *)
FairSpecRedelete == InitRedelete /\ [][Next]_vars /\ WF_vars(Next)

-----------------------------------------------------------------------------
(* SetupVM and SetupManagedInstanceGroupVM. *)

(* A SetupVM that goes on after a failed creation. *)
setupFailedNever(err) == FALSE

(* SetupVM: `if err != nil { t.Fatalf(...) }`. *)
setupFailed(err) == err # Nil

(* SetupVM / SetupManagedInstanceGroupVM once Create has returned: a       *)
(* failed creation ends the test with t.Fatalf, else the deletion is       *)
(* registered with t.Cleanup and the VM goes to the test.                  *)
SetupVM ==
    /\ test.pc = "setup"
    /\ pc = "returned"
    /\ IF setupFailed(ret.err)
       THEN test' = [test EXCEPT !.pc = "end", !.outcome = "abort"]
       ELSE test' = [test EXCEPT !.pc = "body", !.cleanups = @ + 1]
    /\ UNCHANGED <<waitVars, helperVars>>
    /\ UNCHANGED <<env, kind, options, now, pc, callerDeletes>>
    /\ UNCHANGED attemptVars
    /\ UNCHANGED createVars
    /\ UNCHANGED delVars

(* The end of the test: its function returns (pass, or fail after          *)
(* t.Error) or exits with t.FailNow (abort); then the function registered  *)
(* with t.Cleanup runs: it calls the deletion and reports its error with   *)
(* t.Errorf.                                                               *)
tCleanup ==
    /\ pc = "returned"
    /\ \/ /\ test.pc = "body"
          /\ \E outcome \in {"pass", "fail", "abort"} :
               test' = [test EXCEPT !.pc = "end", !.outcome = outcome]
          /\ UNCHANGED <<pc, delCaller>>
       \/ /\ test.pc = "end"
          /\ test.cleanups > 0
          /\ test' = [test EXCEPT !.cleanups = @ - 1, !.cleaned = TRUE, !.pc = "cleanup"]
          /\ delCaller' = "caller"
          /\ pc' = "delete"
       \/ /\ test.pc = "cleanup"
          /\ test' = [test EXCEPT !.pc = "end",
                                  !.outcome = IF delRet # Nil /\ @ = "pass" THEN "fail" ELSE @]
          /\ UNCHANGED <<pc, delCaller>>
    /\ UNCHANGED <<waitVars, helperVars>>
    /\ UNCHANGED <<env, kind, options, now, callerDeletes, delDeadline, delAttempt, numTries,
                   delCmds, templCmds, migDeleted, delLastErr, delRet>>
    /\ UNCHANGED attemptVars
    /\ UNCHANGED createVars

(* A test that gets its VM from SetupVM or SetupManagedInstanceGroupVM,    *)
(* may delete it itself, and ends.  Commands fail with a rate-limit or     *)
(* startup error or not at all.                                            *)
InitSetup ==
    /\ env = "setup"
    /\ kind \in {"vm", "mig"}
    /\ options \in [ImageSpec : {Debian12, SLES15}, Metadata : {{}}]
    /\ InitRest
    /\ NoWaiter
    /\ NoHelper

NextSetup ==
    \/ Next
    \/ SetupVM
    \/ tCleanup

(* The test goroutine keeps running: a step that can be taken is           *)
(* eventually taken.                                                       *)
FairSpecSetup == InitSetup /\ [][NextSetup]_vars /\ WF_vars(NextSetup)

(* The test goroutine keeps running: a step that can be taken is           *)
(* eventually taken.                                                       *)
FairSpecSlow == SpecSlow /\ WF_vars(Next)

-----------------------------------------------------------------------------
(* Backend waiters: WaitForMetricSeries, WaitForMetric, WaitForTrace,      *)
(* QueryLog (WaitForLog), AssertMetricMissing and AssertLogMissing.  Each  *)
(* polls its backend: a query, then time.Sleep, up to a fixed number of    *)
(* attempts.                                                               *)

(* Attempt budgets and backoffs (seconds). *)
QueryMaxAttempts              == 40
queryMaxAttemptsMetricMissing == 5
queryMaxAttemptsLogMissing    == 5
queryBackoffDuration          == 10
LogQueryMaxAttempts           == 15
logQueryBackoffDuration       == 30
traceQueryDerate              == 6
TraceQueryMaxAttempts         == QueryMaxAttempts \div traceQueryDerate
exhaustedRetriesSuffix        == "exhausted retries"

(* Bounds of the model: the items an iterator of a backend yields, the     *)
(* times at which the test's context may be cancelled, and the maxAttempts *)
(* the test may pass to QueryLog.                                          *)
MaxSeries       == 3
NoCancel        == 0 - 1
CancelTimes     == {NoCancel, 0, 5, 25}
MaxAttemptsArgs == {0, 2, LogQueryMaxAttempts}

(* The iterator a lookup returns is the list of the items it yields (a     *)
(* time series is the number of its points) and the error that ends it:    *)
(* iterator.Done, or the error of the failed call.                         *)
Done                     == Err({"iterator.Done"})
Status(code)             == Err({code})
ErrInvalidIteratorLength == Err({"ErrInvalidIteratorLength"})
ItemLists    == UNION {[1..n -> {0, 1}] : n \in 0..MaxSeries}
MetricErrors == {Status("NotFound"), Status("Internal"), Status("ResourceExhausted"),
                 Status("PermissionDenied")}
LogErrors    == {Err({"Internal error encountered"}), Err({"Quota"}),
                 Err({"PermissionDenied"})}

(* A call made with a cancelled context fails with the context's error.    *)
ctxCancelled == cancelAt # NoCancel /\ now >= cancelAt
lookupMetric ==
    IF ctxCancelled
    THEN {[items |-> << >>, end |-> Status("Canceled")]}
    ELSE [items : ItemLists, end : {Done} \cup MetricErrors]
lookupTrace == lookupMetric
logClientEntries ==
    IF ctxCancelled
    THEN {[items |-> << >>, end |-> Err({"context canceled"})]}
    ELSE [items : ItemLists, end : {Done} \cup LogErrors]

(* What the evaluation of an iterator returns; the nil slice (pointer) is  *)
(* the empty list.                                                         *)
Res(data, err) == [data |-> data, err |-> err, panic |-> FALSE]
Panic          == [data |-> << >>, err |-> Nil, panic |-> TRUE]
Wrap(prefix, err) == Err({prefix} \cup err[1])

(* A classifier that does not retry a missing metric descriptor. *)
isRetriableLookupErrorNoNotFound(err) ==
    \/ err = ErrInvalidIteratorLength
    \/ Contains(err, "Internal")
    \/ Contains(err, "ResourceExhausted")

isRetriableLookupError(err) ==
    \/ err = ErrInvalidIteratorLength
    \/ Contains(err, "NotFound")
    \/ Contains(err, "Internal")
    \/ Contains(err, "ResourceExhausted")

(* A classifier that retries every error of the logging backend. *)
isRetriableLogErrorAlways(err) == TRUE

(* The errors QueryLog retries. *)
isRetriableLogError(err) ==
    \/ Contains(err, "Internal error encountered")
    \/ Contains(err, "Quota")

(* A test that keeps the series without points. *)
HasPointsAlways(series) == TRUE

(* len(series.Points) == 0 is skipped. *)
HasPoints(series) == series > 0

(* An evaluation that returns whatever it has collected when the iterator  *)
(* is done, without asking for the minimum.                                *)
nonEmptySeriesListAnyLength(it, minimumRequiredSeries) ==
    LET tsList == SelectSeq(it.items, HasPoints) IN
    IF minimumRequiredSeries < 1 THEN Panic
    ELSE IF it.end # Done THEN Res(<< >>, it.end)
    ELSE Res(tsList, Nil)

nonEmptySeriesList(it, minimumRequiredSeries) ==
    LET tsList == SelectSeq(it.items, HasPoints) IN
    IF minimumRequiredSeries < 1 THEN Panic
    ELSE IF it.end # Done THEN Res(<< >>, it.end)
    ELSE IF Len(tsList) = 0 THEN Res(<< >>, Nil)
    ELSE IF Len(tsList) < minimumRequiredSeries THEN Res(<< >>, ErrInvalidIteratorLength)
    ELSE Res(tsList, Nil)

firstTrace(it) ==
    IF Len(it.items) > 0 THEN Res(<<it.items[1]>>, Nil)
    ELSE IF it.end = Done THEN Res(<< >>, Nil)
    ELSE Res(<< >>, it.end)

(* found is data # << >>, and data holds the first entry. *)
hasMatchingLog(it) ==
    IF it.end # Done THEN Res(<< >>, it.end)
    ELSE IF Len(it.items) > 0 THEN Res(<<it.items[1]>>, Nil)
    ELSE Res(<< >>, Nil)

(* A waiter that returns nil when it runs out of attempts. *)
exhaustedRetriesNil(prefix) == Nil

(* The error of a waiter that ran out of attempts. *)
exhaustedRetries(prefix) == Err({prefix, exhaustedRetriesSuffix})

IsExhaustedRetriesMetricError(err) == err # Nil /\ exhaustedRetriesSuffix \in err[Len(err)]

(* The attempts a waiter makes at most, and the sleep between two.         *)
Budget ==
    CASE fn \in {"WaitForMetricSeries", "WaitForMetric"} -> QueryMaxAttempts
      [] fn = "WaitForTrace" -> TraceQueryMaxAttempts
      [] fn = "QueryLog" -> args.maxAttempts
      [] fn = "AssertMetricMissing" -> queryMaxAttemptsMetricMissing
      [] OTHER -> queryMaxAttemptsLogMissing
Backoff ==
    CASE fn \in {"WaitForMetricSeries", "WaitForMetric", "AssertMetricMissing"} ->
             queryBackoffDuration
      [] fn = "WaitForTrace" -> traceQueryDerate * queryBackoffDuration
      [] OTHER -> logQueryBackoffDuration

testVars == <<env, kind, options, pc, callerDeletes, test>>

(* The waiter returns; WaitForMetric goes on with what WaitForMetricSeries *)
(* returned to it.                                                         *)
WaitReturn(data, err) ==
    /\ wret' = Res(data, err)
    /\ wpc' = IF fn = "WaitForMetric" THEN "seriesReturned" ELSE "done"

(* The answer of a query is recorded. *)
Answered(res) ==
    /\ queries' = queries + 1
    /\ lastRes' = res
    /\ answers' = answers \cup {res}

(* One turn of the loop of WaitForMetricSeries up to its sleep, and the    *)
(* return after the loop.                                                  *)
WaitForMetricSeries ==
    /\ fn \in {"WaitForMetricSeries", "WaitForMetric"}
    /\ wpc = "query"
    /\ IF qAttempt > QueryMaxAttempts
       THEN /\ WaitReturn(<< >>, exhaustedRetries("WaitForMetricSeries("))
            /\ UNCHANGED <<queries, lastRes, answers>>
       ELSE \E it \in lookupMetric :
              LET res == nonEmptySeriesList(it, args.minimumRequiredSeries) IN
                /\ Answered(res)
                /\ IF res.panic
                   THEN /\ wret' = Panic
                        /\ wpc' = "done"
                   ELSE IF res.data # << >> /\ res.err = Nil
                   THEN WaitReturn(res.data, Nil)
                   ELSE IF res.err # Nil /\ ~isRetriableLookupError(res.err)
                   THEN WaitReturn(<< >>, Wrap("WaitForMetric(", res.err))
                   ELSE /\ wpc' = "sleep"
                        /\ UNCHANGED wret
    /\ UNCHANGED <<fn, args, cancelAt, qAttempt, descriptorNotFoundErrCount, now>>
    /\ UNCHANGED <<testVars, createVars, attemptVars, delVars, helperVars>>

(* WaitForMetric after WaitForMetricSeries(..., 1) returned: series[0].    *)
WaitForMetric ==
    /\ fn = "WaitForMetric"
    /\ wpc = "seriesReturned"
    /\ wret' = IF wret.err # Nil THEN Res(<< >>, wret.err)
               ELSE IF Len(wret.data) >= 1 THEN Res(<<wret.data[1]>>, Nil)
               ELSE Panic
    /\ wpc' = "done"
    /\ UNCHANGED <<fn, args, cancelAt, qAttempt, queries, lastRes, answers,
                   descriptorNotFoundErrCount, now>>
    /\ UNCHANGED <<testVars, createVars, attemptVars, delVars, helperVars>>

WaitForTrace ==
    /\ fn = "WaitForTrace"
    /\ wpc = "query"
    /\ IF qAttempt > TraceQueryMaxAttempts
       THEN /\ WaitReturn(<< >>, exhaustedRetries("WaitForTrace()"))
            /\ UNCHANGED <<queries, lastRes, answers>>
       ELSE \E it \in lookupTrace :
              LET res == firstTrace(it) IN
                /\ Answered(res)
                /\ IF res.data # << >> /\ res.err = Nil
                   THEN WaitReturn(res.data, Nil)
                   ELSE IF res.err # Nil /\ ~isRetriableLookupError(res.err)
                   THEN WaitReturn(<< >>, Wrap("WaitForTrace()", res.err))
                   ELSE /\ wpc' = "sleep"
                        /\ UNCHANGED wret
    /\ UNCHANGED <<fn, args, cancelAt, qAttempt, descriptorNotFoundErrCount, now>>
    /\ UNCHANGED <<testVars, createVars, attemptVars, delVars, helperVars>>

(* A test that never sees data. *)
foundNever(series) == FALSE

(* len(series) > 0 in AssertMetricMissing. *)
found(series) == Len(series) > 0

AssertMetricMissing ==
    /\ fn = "AssertMetricMissing"
    /\ wpc = "query"
    /\ IF qAttempt > queryMaxAttemptsMetricMissing
       THEN /\ IF ~args.isPrometheus
               THEN WaitReturn(<< >>, Err({"AssertMetricMissing(",
                                           "no successful queries to the backend"}))
               ELSE IF descriptorNotFoundErrCount # queryMaxAttemptsMetricMissing
               THEN WaitReturn(<< >>, Err({"AssertMetricMissing(",
                        "atleast one query failed with something other than a NOT_FOUND error"}))
               ELSE WaitReturn(<< >>, Nil)
            /\ UNCHANGED <<queries, lastRes, answers, descriptorNotFoundErrCount>>
       ELSE \E it \in lookupMetric :
              LET res == nonEmptySeriesList(it, 1) IN
                /\ Answered(res)
                /\ IF res.err = Nil
                   THEN /\ IF found(res.data)
                           THEN WaitReturn(<< >>, Err({"AssertMetricMissing(",
                                                       "unexpectedly found data for metric"}))
                           ELSE WaitReturn(<< >>, Nil)
                        /\ UNCHANGED descriptorNotFoundErrCount
                   ELSE IF ~isRetriableLookupError(res.err)
                   THEN /\ WaitReturn(<< >>, Wrap("AssertMetricMissing(", res.err))
                        /\ UNCHANGED descriptorNotFoundErrCount
                   ELSE /\ descriptorNotFoundErrCount' = descriptorNotFoundErrCount +
                               (IF args.isPrometheus /\ Contains(res.err, "NotFound")
                                THEN 1 ELSE 0)
                        /\ wpc' = "sleep"
                        /\ UNCHANGED wret
    /\ UNCHANGED <<fn, args, cancelAt, qAttempt, now>>
    /\ UNCHANGED <<testVars, createVars, attemptVars, delVars, helperVars>>

(* QueryLog, which WaitForLog calls with LogQueryMaxAttempts. *)
QueryLog ==
    /\ fn = "QueryLog"
    /\ wpc = "query"
    /\ IF qAttempt > args.maxAttempts
       THEN /\ WaitReturn(<< >>, Err({"QueryLog() failed", "not found",
                                      exhaustedRetriesSuffix}))
            /\ UNCHANGED <<queries, lastRes, answers>>
       ELSE \E it \in logClientEntries :
              LET res == hasMatchingLog(it) IN
                /\ Answered(res)
                /\ IF res.data # << >>
                   THEN WaitReturn(res.data, Nil)
                   ELSE IF res.err # Nil /\ ~isRetriableLogError(res.err)
                   THEN WaitReturn(<< >>, Wrap("QueryLog() failed", res.err))
                   ELSE /\ wpc' = "sleep"
                        /\ UNCHANGED wret
    /\ UNCHANGED <<fn, args, cancelAt, qAttempt, descriptorNotFoundErrCount, now>>
    /\ UNCHANGED <<testVars, createVars, attemptVars, delVars, helperVars>>

AssertLogMissing ==
    /\ fn = "AssertLogMissing"
    /\ wpc = "query"
    /\ IF qAttempt > queryMaxAttemptsLogMissing
       THEN /\ WaitReturn(<< >>, Nil)
            /\ UNCHANGED <<queries, lastRes, answers>>
       ELSE \E it \in logClientEntries :
              LET res == hasMatchingLog(it) IN
                /\ Answered(res)
                /\ IF res.err = Nil
                   THEN IF res.data # << >>
                        THEN WaitReturn(<< >>, Err({"AssertLogMissing(",
                                                    "unexpectedly found data for log"}))
                        ELSE WaitReturn(<< >>, Nil)
                   ELSE IF ~Contains(res.err, "Internal error encountered")
                   THEN WaitReturn(<< >>, Wrap("AssertLogMissing() failed", res.err))
                   ELSE /\ wpc' = "sleep"
                        /\ UNCHANGED wret
    /\ UNCHANGED <<fn, args, cancelAt, qAttempt, descriptorNotFoundErrCount, now>>
    /\ UNCHANGED <<testVars, createVars, attemptVars, delVars, helperVars>>

(* time.Sleep between two attempts, and the loop's attempt++.  The sleep   *)
(* does not look at the context.                                           *)
timeSleep ==
    /\ wpc = "sleep"
    /\ now' = now + Backoff
    /\ qAttempt' = qAttempt + 1
    /\ wpc' = "query"
    /\ UNCHANGED <<fn, args, cancelAt, queries, lastRes, answers,
                   descriptorNotFoundErrCount, wret>>
    /\ UNCHANGED <<testVars, createVars, attemptVars, delVars, helperVars>>

(* A test that calls one backend waiter, with a context that may be        *)
(* cancelled before or while the waiter runs.                              *)
WaiterCalls ==
    [fn : {"WaitForMetricSeries"},
     args : [minimumRequiredSeries : {0, 1, 2}, isPrometheus : BOOLEAN, maxAttempts : {0}]]
    \cup [fn : {"WaitForMetric", "WaitForTrace", "AssertLogMissing"},
          args : [minimumRequiredSeries : {1}, isPrometheus : {FALSE}, maxAttempts : {0}]]
    \cup [fn : {"AssertMetricMissing"},
          args : [minimumRequiredSeries : {1}, isPrometheus : BOOLEAN, maxAttempts : {0}]]
    \cup [fn : {"QueryLog"},
          args : [minimumRequiredSeries : {1}, isPrometheus : {FALSE},
                  maxAttempts : MaxAttemptsArgs]]

InitWait ==
    /\ env = "backend"
    /\ kind = "vm"
    /\ options = [ImageSpec |-> Debian12, Metadata |-> {}]
    /\ InitRest
    /\ NoHelper
    /\ \E c \in WaiterCalls :
         /\ fn = c.fn
         /\ args = c.args
    /\ cancelAt \in CancelTimes
    /\ wpc = "query"
    /\ qAttempt = 1
    /\ queries = 0
    /\ answers = {}
    /\ lastRes = Res(<< >>, Nil)
    /\ descriptorNotFoundErrCount = 0
    /\ wret = Res(<< >>, Nil)

NextWait ==
    \/ WaitForMetricSeries
    \/ WaitForMetric
    \/ WaitForTrace
    \/ AssertMetricMissing
    \/ QueryLog
    \/ AssertLogMissing
    \/ timeSleep

SpecWait == InitWait /\ [][NextWait]_vars

-----------------------------------------------------------------------------
(* Helpers of the harness, each exercised on its own by a test: the zone   *)
(* picker, runCommand, UploadContent and RunScriptRemotely, the            *)
(* logClientFactory and waitForStartLinux.                                 *)

(* Bounds of the model: the goroutines that call a shared helper, and the  *)
(* calls they make together.                                               *)
NumGoroutines == 2
MaxCalls      == 5
Goroutines    == 1..NumGoroutines

(* A Lock that does not wait for the holder. *)
LockUnguarded(g) == mutex' = g

(* sync.Mutex.Lock by goroutine g: it gets the mutex when nobody holds it. *)
Lock(g) == mutex = 0 /\ mutex' = g

(* ZONES: the comma-separated entries, each `zone` or `zone=weight`.       *)
ZonesEnv == {<<<<"A", "=", 2>>, <<"B">>>>,
             <<<<"A">>, <<"B", "=", 3>>, <<"C">>>>}

(* A picker that gives every zone one slot. *)
newZonePickerUnweighted(zones) == [i \in 1..Len(zones) |-> zones[i][1]]

(* newZonePicker: the slots of one rotation, every zone as often as its    *)
(* weight, 1 when the entry has none.                                      *)
RECURSIVE newZonePicker(_)
newZonePicker(zones) ==
    IF zones = << >> THEN << >>
    ELSE LET entry  == Head(zones)
             weight == IF Len(entry) = 3 THEN entry[3] ELSE 1
         IN [i \in 1..weight |-> entry[1]] \o newZonePicker(Tail(zones))

(* zonePicker.Next() called by goroutine g: under the mutex, it takes the  *)
(* slot at the cursor and moves the cursor on by one, around the rotation. *)
zonePickerNext ==
    /\ helper = "zonePicker.Next"
    /\ \E g \in Goroutines :
         \/ /\ gpc[g] = "idle"
            /\ zonePicker.calls < MaxCalls
            /\ Lock(g)
            /\ gpc' = [gpc EXCEPT ![g] = "locked"]
            /\ zonePicker' = [zonePicker EXCEPT !.calls = @ + 1]
            /\ UNCHANGED <<greg, hret>>
         \/ /\ gpc[g] = "locked"
            /\ greg' = [greg EXCEPT ![g] = zonePicker.cursor]
            /\ gpc' = [gpc EXCEPT ![g] = "read"]
            /\ UNCHANGED <<mutex, zonePicker, hret>>
         \/ /\ gpc[g] = "read"
            /\ zonePicker' = [zonePicker EXCEPT
                                !.cursor = (greg[g] + 1) % Len(zonePicker.slots),
                                !.handed = Append(@, [g |-> g, slot |-> greg[g]])]
            /\ gpc' = [gpc EXCEPT ![g] = "picked"]
            /\ UNCHANGED <<mutex, greg, hret>>
         \/ /\ gpc[g] = "picked"
            /\ mutex' = 0
            /\ hret' = Append(hret, zonePicker.slots[greg[g] + 1])
            /\ gpc' = [gpc EXCEPT ![g] = "idle"]
            /\ UNCHANGED <<greg, zonePicker>>
    /\ UNCHANGED <<helper, proc, xfer, logClients, startup, now>>
    /\ UNCHANGED <<testVars, createVars, attemptVars, delVars, waitVars>>

(* What a subprocess does: the chunks it writes to each of its two pipes   *)
(* (a chunk is the bytes one Write call carries) and how cmd.Run() ends:   *)
(* exit status 0, a non-zero exit status, or killed at cancellation.       *)
Subprocesses ==
    [stdout : {<< >>, <<<<"o1", "o2">>>>, <<<<"o1", "o2">>, <<"o3", "o4">>>>},
     stderr : {<< >>, <<<<"e1", "e2">>>>, <<<<"e1", "e2">>, <<"e3">>>>},
     err    : {Nil, Err({"exit status 1"}), Err({"signal: killed"})}]

(* A runCommand that takes any argument vector. *)
argsErrorNever(argv) == Nil

(* runCommand: the check of its argument vector. *)
argsError(argv) ==
    IF Len(argv) < 1
    THEN <<[msg |-> "runCommand() needs a nonempty argument slice", args |-> argv]>>
    ELSE Nil

(* An error of the command that leaves out what the command wrote. *)
commandFailedBare(argv, err, text) ==
    IF err = Nil THEN Nil
    ELSE <<[msg |-> "Command failed", args |-> argv, err |-> err, text |-> << >>]>>

(* runCommand: the error it returns for the error of cmd.Run().            *)
commandFailed(argv, err, text) ==
    IF err = Nil THEN Nil
    ELSE <<[msg |-> "Command failed", args |-> argv, err |-> err, text |-> text]>>

(* The two goroutines of exec.Cmd that copy the pipes of the subprocess, 1 *)
(* for stdout and 2 for stderr: a copier hands a chunk to its              *)
(* io.MultiWriter, so the chunk goes to the builder of its stream and then *)
(* through ThreadSafeWriter.Write, which appends it to the shared builder, *)
(* byte after byte, under the mutex.                                       *)
ThreadSafeWriterWrite ==
    /\ helper = "runCommand"
    /\ proc.pc = "running"
    /\ \E g \in DOMAIN proc.pending :
         \/ /\ gpc[g] = "idle"
            /\ proc.pending[g] # << >>
            /\ greg' = [greg EXCEPT ![g] = 0]
            /\ proc' = [proc EXCEPT !.builders[g] = @ \o Head(proc.pending[g])]
            /\ gpc' = [gpc EXCEPT ![g] = "write"]
            /\ UNCHANGED mutex
         \/ /\ gpc[g] = "write"
            /\ Lock(g)
            /\ gpc' = [gpc EXCEPT ![g] = "locked"]
            /\ UNCHANGED <<greg, proc>>
         \/ /\ gpc[g] = "locked"
            /\ greg[g] < Len(Head(proc.pending[g]))
            /\ proc' = [proc EXCEPT
                          !.interleaved = Append(@, Head(proc.pending[g])[greg[g] + 1])]
            /\ greg' = [greg EXCEPT ![g] = @ + 1]
            /\ UNCHANGED <<mutex, gpc>>
         \/ /\ gpc[g] = "locked"
            /\ greg[g] = Len(Head(proc.pending[g]))
            /\ mutex' = 0
            /\ proc' = [proc EXCEPT !.pending[g] = Tail(@)]
            /\ gpc' = [gpc EXCEPT ![g] = "idle"]
            /\ UNCHANGED greg
    /\ UNCHANGED <<helper, zonePicker, xfer, logClients, startup, hret, now>>
    /\ UNCHANGED <<testVars, createVars, attemptVars, delVars, waitVars>>

(* runCommand: it refuses an empty argument vector, else starts the        *)
(* subprocess with the three builders; when the subprocess has ended and   *)
(* the copiers are through, it returns what the builders hold and the      *)
(* error of cmd.Run(), wrapped.                                            *)
runCommand ==
    /\ helper = "runCommand"
    /\ \/ /\ proc.pc = "call"
          /\ argsError(proc.args) # Nil
          /\ proc' = [proc EXCEPT !.pc = "done"]
          /\ hret' = [output |-> [Stdout |-> << >>, Stderr |-> << >>],
                      err |-> argsError(proc.args)]
       \/ /\ proc.pc = "call"
          /\ argsError(proc.args) = Nil
          /\ \E sub \in Subprocesses :
               proc' = [proc EXCEPT !.pc = "running", !.started = TRUE,
                                    !.pending = <<sub.stdout, sub.stderr>>,
                                    !.err = sub.err]
          /\ UNCHANGED hret
       \/ /\ proc.pc = "running"
          /\ \A g \in DOMAIN proc.pending : gpc[g] = "idle" /\ proc.pending[g] = << >>
          /\ proc' = [proc EXCEPT !.pc = "done"]
          /\ hret' = [output |-> [Stdout |-> proc.builders[1], Stderr |-> proc.builders[2]],
                      err |-> commandFailed(proc.args, proc.err, proc.interleaved)]
    /\ UNCHANGED <<helper, mutex, gpc, greg, zonePicker, xfer, logClients, startup, now>>
    /\ UNCHANGED <<testVars, createVars, attemptVars, delVars, waitVars>>

(* An UploadContent whose cleanup does not change what it returns. *)
cleanupErrorIgnored(err, deleteErr) == err

(* UploadContent: the deferred cleanup sets the named result after         *)
(* object.Delete(ctx).                                                     *)
cleanupError(err, deleteErr) ==
    IF deleteErr # Nil
    THEN Err({"UploadContent() finished with err, then cleanup finished with err"}
             \cup deleteErr[1])
    ELSE err

(* UploadContent: data goes into an object of the transfers bucket, the VM *)
(* pulls the object (after InstallGsutilIfNeeded on Linux), and the        *)
(* deferred function deletes the object. What the storage service and the  *)
(* VM answer is open.                                                      *)
UploadContent ==
    /\ helper \in {"UploadContent", "RunScriptRemotely"}
    /\ \/ /\ xfer.pc = "upload.write"
          /\ \E writeErr \in {Nil, Err({"io.Copy"}), Err({"writer.Close"})} :
               IF writeErr # Nil
               THEN xfer' = [xfer EXCEPT
                               !.pc = "upload.return",
                               !.err = Wrap("UploadContent() could not write data into storage object", writeErr),
                               !.log = Append(@, [do |-> "write", err |-> writeErr])]
               ELSE xfer' = [xfer EXCEPT
                               !.pc = IF xfer.windows THEN "upload.pull" ELSE "upload.install",
                               !.bucket = @ \cup {<<"vm", xfer.remotePath>>},
                               !.log = Append(@, [do |-> "write", err |-> Nil])]
       \/ /\ xfer.pc = "upload.install"
          /\ \E installErr \in {Nil, Err({"InstallGsutilIfNeeded"})} :
               xfer' = [xfer EXCEPT
                          !.pc = IF installErr # Nil THEN "upload.defer" ELSE "upload.pull",
                          !.err = installErr,
                          !.log = Append(@, [do |-> "install", err |-> installErr])]
       \/ /\ xfer.pc = "upload.pull"
          /\ \E pullErr \in {Nil, Err({"Command failed"})} :
               xfer' = [xfer EXCEPT
                          !.pc = "upload.defer",
                          !.err = pullErr,
                          !.log = Append(@, [do |-> "pull", err |-> pullErr])]
       \/ /\ xfer.pc = "upload.defer"
          /\ \E deleteErr \in {Nil, Err({"object.Delete"})} :
               xfer' = [xfer EXCEPT
                          !.pc = "upload.return",
                          !.err = cleanupError(xfer.err, deleteErr),
                          !.bucket = IF deleteErr = Nil
                                     THEN @ \ {<<"vm", xfer.remotePath>>} ELSE @,
                          !.log = Append(@, [do |-> "delete", err |-> deleteErr])]
    /\ UNCHANGED hret
    /\ UNCHANGED <<helper, mutex, gpc, greg, zonePicker, proc, logClients, startup, now>>
    /\ UNCHANGED <<testVars, createVars, attemptVars, delVars, waitVars>>

(* A command line that carries the script itself. *)
scriptCommandInline(scriptPath, flags, scriptContents) ==
    <<"powershell -Command ", scriptContents, " ", flags>>

(* RunScriptRemotely on Windows: the command line that runs the uploaded   *)
(* file.                                                                   *)
scriptCommand(scriptPath, flags, scriptContents) ==
    <<"powershell -File ">> \o scriptPath \o <<" ", flags>>

(* wrapPowershellCommand: the command goes, encoded, behind                *)
(* -EncodedCommand.                                                        *)
wrapPowershellCommand(command) ==
    <<"powershell -NonInteractive -EncodedCommand ", [utf16base64 |-> command]>>

(* RunScriptRemotely, and the return of a test's own UploadContent call.   *)
(* On Windows the script is uploaded to C:\<uuid>.ps1 and then run by      *)
(* RunRemotely; on Linux it is piped to RunRemotelyStdin, which writes and *)
(* runs <uuid>.sh.                                                         *)
RunScriptRemotely ==
    /\ \/ /\ helper = "RunScriptRemotely"
          /\ xfer.pc = "script.call"
          /\ \E uuid \in {"u1", "u2"} \ xfer.used :
               IF xfer.windows
               THEN xfer' = [xfer EXCEPT !.pc = "upload.write",
                                         !.scriptPath = <<"C:\\", uuid, ".ps1">>,
                                         !.remotePath = <<"C:\\", uuid, ".ps1">>]
               ELSE xfer' = [xfer EXCEPT !.pc = "script.stdin",
                                         !.scriptPath = <<uuid, ".sh">>]
          /\ UNCHANGED hret
       \/ /\ helper = "RunScriptRemotely"
          /\ xfer.pc = "script.stdin"
          /\ \E runErr \in {Nil, Err({"Command failed"})} :
               /\ xfer' = [xfer EXCEPT
                             !.pc = "done",
                             !.log = Append(@, [do |-> "invoke", err |-> runErr,
                                                stdin |-> <<"scriptContents">>,
                                                command |-> <<"cat - > ">> \o xfer.scriptPath
                                                            \o <<" && sudo bash -x ">>
                                                            \o xfer.scriptPath \o <<" ", "flags">>])]
               /\ hret' = [err |-> runErr]
       \/ /\ helper = "RunScriptRemotely"
          /\ xfer.pc = "upload.return"
          /\ IF xfer.err # Nil
             THEN /\ xfer' = [xfer EXCEPT !.pc = "done"]
                  /\ hret' = [err |-> xfer.err]
             ELSE \E runErr \in {Nil, Err({"Command failed"})} :
                    /\ xfer' = [xfer EXCEPT
                                  !.pc = "done",
                                  !.log = Append(@, [do |-> "invoke", err |-> runErr,
                                                     stdin |-> << >>,
                                                     command |-> wrapPowershellCommand(
                                                        scriptCommand(xfer.scriptPath, "flags",
                                                                      "scriptContents"))])]
                    /\ hret' = [err |-> runErr]
       \/ /\ helper = "UploadContent"
          /\ xfer.pc = "upload.return"
          /\ xfer' = [xfer EXCEPT !.pc = "done"]
          /\ hret' = [err |-> xfer.err]
    /\ UNCHANGED <<helper, mutex, gpc, greg, zonePicker, proc, logClients, startup, now>>
    /\ UNCHANGED <<testVars, createVars, attemptVars, delVars, waitVars>>

(* logClientFactory.new(project) called by goroutine g: under the mutex it *)
(* looks the project up in the map of clients, and when there is none it   *)
(* constructs one with logadmin.NewClient, which may fail, and stores it.  *)
(* A client is known by its number in the order of construction.           *)
logClientFactoryNew ==
    /\ helper = "logClientFactory.new"
    /\ \E g \in Goroutines :
         \/ /\ gpc[g] = "idle"
            /\ logClients.calls < MaxCalls
            /\ Lock(g)
            /\ \E project \in {"p1", "p2"} :
                 greg' = [greg EXCEPT ![g] = [project |-> project, client |-> 0, err |-> Nil]]
            /\ gpc' = [gpc EXCEPT ![g] = "locked"]
            /\ logClients' = [logClients EXCEPT !.calls = @ + 1]
            /\ UNCHANGED hret
         \/ /\ gpc[g] = "locked"
            /\ greg' = [greg EXCEPT ![g].client = logClients.clients[greg[g].project]]
            /\ gpc' = [gpc EXCEPT ![g] = "looked"]
            /\ UNCHANGED <<mutex, logClients, hret>>
         \/ /\ gpc[g] = "looked"
            /\ greg[g].client # 0
            /\ gpc' = [gpc EXCEPT ![g] = "return"]
            /\ UNCHANGED <<mutex, greg, logClients, hret>>
         \/ /\ gpc[g] = "looked"
            /\ greg[g].client = 0
            /\ \E newErr \in {Nil, Err({"logadmin.NewClient"})} :
                 IF newErr # Nil
                 THEN /\ greg' = [greg EXCEPT ![g].err =
                            Wrap("logClientFactory.new() could not construct new logadmin.Client", newErr)]
                      /\ logClients' = [logClients EXCEPT
                            !.tried = Append(@, [project |-> greg[g].project, client |-> 0])]
                 ELSE LET client == Len(logClients.tried) + 1
                      IN /\ greg' = [greg EXCEPT ![g].client = client]
                         /\ logClients' = [logClients EXCEPT
                               !.clients[greg[g].project] = client,
                               !.tried = Append(@, [project |-> greg[g].project,
                                                    client |-> client])]
            /\ gpc' = [gpc EXCEPT ![g] = "return"]
            /\ UNCHANGED <<mutex, hret>>
         \/ /\ gpc[g] = "return"
            /\ mutex' = 0
            /\ hret' = Append(hret, greg[g])
            /\ gpc' = [gpc EXCEPT ![g] = "idle"]
            /\ UNCHANGED <<greg, logClients>>
    /\ UNCHANGED <<helper, zonePicker, proc, xfer, startup, now>>
    /\ UNCHANGED <<testVars, createVars, attemptVars, delVars, waitVars>>

(* Time constants of waitForStartLinux, in seconds, and its retry bound    *)
(* for sudo.                                                               *)
vmInitBackoffDuration      == 10
vmInitPokeSSHTimeout       == 30
slesStartupDelay           == 60
slesStartupSudoDelay       == 5
slesStartupSudoMaxAttempts == 60

(* What a poll with `systemctl is-system-running` over ssh can bring back: *)
(* the trimmed stdout and the error of RunRemotely. systemctl exits with   *)
(* status 0 only when it prints "running"; with any other state, and when  *)
(* ssh fails (stdout is then empty), RunRemotely returns an error. A poll  *)
(* that printed "running" can still end with an error (ssh closing badly). *)
Polls ==
    {[state |-> "running",     err |-> Nil],
     [state |-> "running",     err |-> Err({"Command failed"})],
     [state |-> "degraded",    err |-> Err({"Command failed", "exit status 1"})],
     [state |-> "starting",    err |-> Err({"Command failed", "exit status 1"})],
     [state |-> "",            err |-> Err({"Command failed", "exit status 255"})]}

(* An isStartupDone that takes every answer of systemctl for readiness. *)
isStartupDoneAnyState(state, err) ==
    IF state # "" THEN Nil ELSE err

(* isStartupDone: the error the retry loop of waitForStartLinux sees for a *)
(* poll.                                                                   *)
isStartupDone(state, err) ==
    IF state = "running" THEN Nil
    ELSE IF state = "degraded" THEN Nil
    ELSE err

(* waitForStartLinux: polls every vmInitBackoffDuration until               *)
(* isStartupDone, at most 5 minutes' worth of retries on SUSE, and until   *)
(* the context is done in any case; on SUSE it then sleeps and retries     *)
(* `sudo ls /root`.                                                        *)
waitForStartLinux ==
    /\ helper = "waitForStartLinux"
    /\ \/ /\ startup.pc = "poll"
          /\ \E d \in {1, vmInitPokeSSHTimeout}, poll \in Polls, tie \in Ties :
               LET pollDeadline == Min(now + vmInitPokeSSHTimeout, startup.deadline)
                   t      == Min(now + d, pollDeadline)
                   answer == IF now + d > pollDeadline \/ now >= startup.deadline
                             THEN [state |-> "", err |-> Wrap("Command failed", killedErr)]
                             ELSE poll
                   max    == IF IsSUSEImageSpec(startup.image)
                             THEN (5 * 60) \div vmInitBackoffDuration
                             ELSE NoMaxRetries
                   r      == RetryNext(Op(isStartupDone(answer.state, answer.err), FALSE),
                                       t, startup.deadline, startup.n, max,
                                       vmInitBackoffDuration, tie)
               IN /\ now' = r.t
                  /\ IF ~r.done
                     THEN /\ startup' = [startup EXCEPT !.n = r.n, !.last = answer,
                                                        !.polls = @ + 1]
                          /\ UNCHANGED hret
                     ELSE IF r.err # Nil
                     THEN /\ startup' = [startup EXCEPT !.pc = "done", !.n = r.n,
                                                        !.last = answer, !.polls = @ + 1]
                          /\ hret' = [err |-> Wrap(startupFailedMessage, r.err)]
                     ELSE IF IsSUSEImageSpec(startup.image)
                     THEN /\ startup' = [startup EXCEPT !.pc = "sles", !.last = answer,
                                                        !.polls = @ + 1, !.ready = TRUE]
                          /\ UNCHANGED hret
                     ELSE /\ startup' = [startup EXCEPT !.pc = "done", !.last = answer,
                                                        !.polls = @ + 1, !.ready = TRUE]
                          /\ hret' = [err |-> Nil]
       \/ /\ startup.pc = "sles"
          /\ now' = now + slesStartupDelay
          /\ startup' = [startup EXCEPT !.pc = "sudo", !.n = 0]
          /\ UNCHANGED hret
       \/ /\ startup.pc = "sudo"
          /\ \E d \in {1, vmInitPokeSSHTimeout}, tie \in Ties,
                sudoErr \in {Nil, Err({"Command failed", "sudo"})} :
               LET t   == Min(now + d, Max(now, startup.deadline))
                   err == IF now + d > startup.deadline
                          THEN Wrap("Command failed", killedErr) ELSE sudoErr
                   r   == RetryNext(Op(err, FALSE), t, startup.deadline, startup.n,
                                    slesStartupSudoMaxAttempts, slesStartupSudoDelay, tie)
               IN /\ now' = r.t
                  /\ IF ~r.done
                     THEN /\ startup' = [startup EXCEPT !.n = r.n]
                          /\ UNCHANGED hret
                     ELSE /\ startup' = [startup EXCEPT !.pc = "done", !.n = r.n]
                          /\ hret' = [err |-> IF r.err = Nil THEN Nil
                                              ELSE Wrap("exceeded retries trying to get sudo", r.err)]
    /\ UNCHANGED <<helper, mutex, gpc, greg, zonePicker, proc, xfer, logClients>>
    /\ UNCHANGED <<testVars, createVars, attemptVars, delVars, waitVars>>

(* A test that exercises one helper. *)
InitHelper ==
    /\ env = "helper"
    /\ kind = "vm"
    /\ options = [ImageSpec |-> Debian12, Metadata |-> {}]
    /\ InitRest
    /\ NoWaiter
    /\ helper \in {"zonePicker.Next", "runCommand", "UploadContent", "RunScriptRemotely",
                  "logClientFactory.new", "waitForStartLinux"}
    /\ mutex = 0
    /\ gpc = [g \in Goroutines |-> "idle"]
    /\ greg = [g \in Goroutines |-> 0]
    /\ \/ /\ helper = "zonePicker.Next"
          /\ \E zones \in ZonesEnv :
               zonePicker = [zones |-> zones, slots |-> newZonePicker(zones),
                             cursor |-> 0, handed |-> << >>, calls |-> 0]
       \/ helper # "zonePicker.Next" /\ zonePicker = << >>
    /\ \/ /\ helper = "runCommand"
          /\ \E argv \in {<< >>, <<"gcloud", "version">>} :
               proc = [pc |-> "call", args |-> argv, started |-> FALSE,
                       pending |-> <<<< >>, << >>>>, builders |-> <<<< >>, << >>>>,
                       interleaved |-> << >>, err |-> Nil]
       \/ helper # "runCommand" /\ proc = << >>
    /\ \/ /\ helper \in {"UploadContent", "RunScriptRemotely"}
          /\ \E windows \in BOOLEAN, used \in {{}, {"u1"}} :
               xfer = [pc |-> IF helper = "UploadContent" THEN "upload.write"
                              ELSE "script.call",
                       windows |-> windows, used |-> used, scriptPath |-> << >>,
                       remotePath |-> <<"file">>, bucket |-> {}, err |-> Nil,
                       log |-> << >>]
       \/ helper \notin {"UploadContent", "RunScriptRemotely"} /\ xfer = << >>
    /\ logClients = IF helper = "logClientFactory.new"
                    THEN [clients |-> [project \in {"p1", "p2"} |-> 0],
                          tried |-> << >>, calls |-> 0]
                    ELSE << >>
    /\ \/ /\ helper = "waitForStartLinux"
          /\ \E image \in {Debian12, SLES15}, deadline \in {45, 400} :
               startup = [pc |-> "poll", image |-> image, deadline |-> deadline, n |-> 0,
                          polls |-> 0, last |-> [state |-> "", err |-> Nil],
                          ready |-> FALSE]
       \/ helper # "waitForStartLinux" /\ startup = << >>
    /\ hret = << >>

NextHelper ==
    \/ zonePickerNext
    \/ runCommand
    \/ ThreadSafeWriterWrite
    \/ UploadContent
    \/ RunScriptRemotely
    \/ logClientFactoryNew
    \/ waitForStartLinux

SpecHelper == InitHelper /\ [][NextHelper]_vars

-----------------------------------------------------------------------------
(* Properties. *)

(* C1: CreateInstance, CreateManagedInstanceGroupVM and the attempt        *)
(* helpers return exactly one of (resource, error): never both non-nil,    *)
(* never both nil.                                                         *)
C1_ExactlyOneOfResourceAndError ==
    /\ pc = "attemptDone" => (vmToReturn <=> errToReturn = Nil)
    /\ pc = "returned" => (ret.vm <=> ret.err = Nil)

(* Create returned a resource after an attempt that returned an error.     *)
C1_Witness ==
    /\ pc = "returned"
    /\ attempts = 2
    /\ ret.vm
    /\ ret.err = Nil
    /\ callerDeletes = 0

(* C2: once AlreadyDeleted is true, a deletion call returns nil, issues no *)
(* deletion command and leaves the object (and the cloud) as they are,     *)
(* however often it is repeated.                                           *)
C2_DeleteAfterDeletedIsNoOp ==
    [][(pc = "delete" /\ vm.AlreadyDeleted) =>
          /\ pc' = (IF delCaller = "cleanup" THEN "attemptDone" ELSE "returned")
          /\ delRet' = Nil
          /\ delCmds' = 0
          /\ templCmds' = 0
          /\ vm' = vm
          /\ cloud' = cloud
          /\ now' = now]_vars

(* The second deletion call of the test returned without a command, the    *)
(* first one having deleted the VM.                                        *)
C2_Witness ==
    /\ pc = "returned"
    /\ callerDeletes = 2
    /\ vm.AlreadyDeleted
    /\ delCmds = 0
    /\ templCmds = 0
    /\ delRet = Nil

(* C3: in attemptCreateInstance a failure after the successful create      *)
(* command (ID parsing, IP extraction, readiness, remediation) returns     *)
(* only through DeleteInstance, and the returned error is the original     *)
(* failure followed by the deletion error, if any.                         *)
C3_CleanupBeforeReturn ==
    [][kind = "vm" =>
          /\ (pc \in {"defer", "delete", "tryDelete"} /\ pc' \in {"delete", "tryDelete"}
                 /\ delCaller' = "cleanup")
                => errToReturn' = errToReturn
          /\ (pc # "attemptDone" /\ pc' = "attemptDone" /\ failedAt' \in {"extractID", "extractIPAddress", "verify"})
                => /\ pc = "tryDelete"
                   /\ cleanupCalled'
                   /\ delCmds' >= 1
                   /\ errToReturn # Nil
                   /\ errToReturn' = errToReturn \o delRet']_vars

(* The readiness check failed, the deletion failed as well, and the        *)
(* attempt returned both errors.                                           *)
C3_Witness ==
    /\ pc = "attemptDone"
    /\ kind = "vm"
    /\ failedAt = "verify"
    /\ cleanupCalled
    /\ delRet # Nil
    /\ Len(errToReturn) = 2

(* C4: every cloud instance a creation attempt brought into existence is   *)
(* returned with a nil error, or the attempt has tried to delete it; the   *)
(* path where the create command itself reports an error included.         *)
C4_CreatedInstanceReturnedOrDeleted ==
    (pc = "attemptDone" /\ made.inst)
        => \/ (errToReturn = Nil /\ vmToReturn)
           \/ (cleanupCalled /\ delCmds >= 1)

(* C5: an attempt error that matches none of the transient patterns is     *)
(* permanent: CreateInstance returns that error at once, without a backoff *)
(* sleep and without a further attempt.                                    *)
C5_PermanentErrorReturnedAtOnce ==
    [][LET transient ==
              \/ \E m \in {"Quota", "Internal error", "currently unavailable",
                           "database is locked", prepareSLESMessage} :
                     Contains(errToReturn, m)
              \/ /\ options.ImageSpec = Windows2019Core
                 /\ Contains(errToReturn, windowsStartupFailedMessage)
              \/ /\ options.ImageSpec = SLES15
                 /\ Contains(errToReturn, startupFailedMessage)
       IN (pc = "attemptDone" /\ kind = "vm" /\ errToReturn # Nil /\ ~transient)
             => /\ pc' = "returned"
                /\ ret' = [vm |-> FALSE, err |-> errToReturn]
                /\ now' = now
                /\ attempts' = attempts]_vars

(* CreateInstance returned the startup failure of its only attempt, on an  *)
(* image for which that failure is not retried.                            *)
C5_Witness ==
    /\ pc = "returned"
    /\ kind = "vm"
    /\ options.ImageSpec = Debian12
    /\ attempts = 1
    /\ failedAt = "verify"
    /\ Contains(ret.err, startupFailedMessage)
    /\ returnReason = "permanent"

(* C6: when every attempt fails with a retriable error, Create starts at   *)
(* least three attempts before it gives up, however long the attempts and  *)
(* their cleanup deletions take.                                           *)
C6_AtLeastThreeAttempts ==
    (pc = "returned" /\ returnReason = "deadline") => attempts >= 3

(* C7: CreateInstance and CreateManagedInstanceGroupVM terminate; the      *)
(* retry loop stops once the overall deadline has expired, and no attempt  *)
(* is started after the overall deadline has passed.  (When the backoff    *)
(* timer and the deadline fall on the same instant the select may take the *)
(* timer: an attempt can start at the deadline itself, not after it.)      *)
C7_TerminatesAndStopsAtDeadline ==
    /\ <>(pc = "returned")
    /\ [][/\ (pc = "attemptDone" /\ now >= ctxDeadline) => pc' = "returned"
          /\ (pc = "createFunc" /\ pc' # "createFunc") => now <= ctxDeadline]_vars

(* Create gave up because the overall deadline expired. *)
C7_Witness ==
    /\ pc = "returned"
    /\ returnReason = "deadline"
    /\ now >= ctxDeadline
    /\ ret.err = ctxErr

(* C8: within one DeleteInstance call "not found" is a success on the      *)
(* second or a later attempt only; on the first attempt it is returned as  *)
(* a permanent error (no retry, AlreadyDeleted stays false).  "Quota" and  *)
(* "Error 50" errors are retried; every other error is permanent.          *)
C8_DeleteErrorHandling ==
    [][(kind = "vm" /\ pc = "tryDelete") =>
          LET e       == delLastErr'
              retried == Contains(e, "Quota") \/ Contains(e, "Error 50")
              ended   == pc' # "tryDelete"
          IN /\ delAttempt' = delAttempt + 1
             /\ e = Nil => (ended /\ delRet' = Nil /\ vm'.AlreadyDeleted)
             /\ (Contains(e, "not found") /\ delAttempt' >= 2)
                   => (ended /\ delRet' = Nil /\ vm'.AlreadyDeleted)
             /\ (Contains(e, "not found") /\ delAttempt' = 1)
                   => (ended /\ delRet' = e /\ ~vm'.AlreadyDeleted /\ numTries' = numTries)
             /\ retried
                   => \/ ~ended /\ numTries' = numTries + 1 /\ now' <= delDeadline
                      \/ /\ ended
                         /\ delRet' # Nil
                         /\ ~vm'.AlreadyDeleted
                         /\ numTries = deleteMaxRetries \/ now' >= delDeadline
             /\ (e # Nil /\ ~retried /\ ~Contains(e, "not found"))
                   => (ended /\ delRet' = e /\ ~vm'.AlreadyDeleted /\ numTries' = numTries)]_vars

(* The first deletion command was answered "not found" and the call        *)
(* returned that error.                                                    *)
C8_Witness ==
    /\ pc = "returned"
    /\ kind = "vm"
    /\ callerDeletes = 1
    /\ delAttempt = 1
    /\ Contains(delLastErr, "not found")
    /\ delRet = delLastErr
    /\ ~vm.AlreadyDeleted

(* C9: DeleteManagedInstanceGroupVM issues no template deletion command    *)
(* before the group deletion was reported successful, and sets             *)
(* AlreadyDeleted only after both deletions succeeded.                     *)
C9_TemplateAfterGroup ==
    [][kind = "mig" =>
          /\ templCmds' > templCmds => migDeleted
          /\ pc' = "tryDeleteTemplate" => migDeleted'
          /\ (vm'.AlreadyDeleted /\ ~vm.AlreadyDeleted)
                => (pc = "tryDeleteTemplate" /\ migDeleted /\ delRet' = Nil)]_vars

(* Group and template were deleted and the object is marked. *)
C9_Witness ==
    /\ pc = "returned"
    /\ kind = "mig"
    /\ vm.AlreadyDeleted
    /\ migDeleted
    /\ delCmds >= 1
    /\ templCmds >= 1

(* C10: when attemptCreateManagedInstanceGroupVM fails at a step after the *)
(* instance template was created, the cleanup attempts to delete every     *)
(* resource created so far, the instance template in particular, before    *)
(* the attempt returns.                                                    *)
C10_TemplateDeletionAttempted ==
    (pc = "attemptDone" /\ kind = "mig" /\ made.templ
        /\ failedAt \notin {"", "args", "template"})
        => (cleanupCalled /\ templCmds >= 1)

(* C11: deletion does not depend on the caller's context.  A deletion call *)
(* that has something to delete runs under a deadline of its own, ten      *)
(* minutes after its entry, and its first deletion command is started,     *)
(* also when the context of the creation attempt that calls it as cleanup  *)
(* (or the overall creation context) is already done.                      *)
C11_DeletionIgnoresCallerContext ==
    [][/\ (pc = "delete" /\ pc' \in {"tryDelete", "tryDeleteMIG"}) =>
              delDeadline' = now + deleteTimeout
       /\ (pc \in {"tryDelete", "tryDeleteMIG"} /\ delAttempt = 0 /\ delCmds = 0) =>
              delCmds' = 1]_vars

(* The cleanup of an attempt whose context had expired in verification has *)
(* issued a deletion command.                                              *)
C11_Witness ==
    /\ pc = "attemptDone"
    /\ failedAt = "verify"
    /\ cleanupCalled
    /\ delCaller = "cleanup"
    /\ delDeadline >= attemptDeadline + deleteTimeout
    /\ delCmds >= 1

(* C12: when the caller's context is cancelled while a retry loop is       *)
(* between two attempts, the loop aborts at once: it neither finishes the  *)
(* backoff sleep nor starts another attempt.  For the backend waiters: no  *)
(* waiter comes back from a sleep during which its context was cancelled.  *)
C12_WaiterSleepEndsAtCancel ==
    ~(/\ wpc = "query"
      /\ qAttempt > 1
      /\ cancelAt # NoCancel
      /\ now - Backoff < cancelAt
      /\ cancelAt < now)

(* A call of WaitForMetricSeries has returned after QueryMaxAttempts       *)
(* queries, every one of which succeeded and found no series with points.  *)
C13_Witness ==
    /\ fn = "WaitForMetricSeries"
    /\ wpc = "done"
    /\ queries = QueryMaxAttempts
    /\ answers = {Res(<< >>, Nil)}

(* C13 as stated: a WaitForMetricSeries whose every query over the full    *)
(* budget succeeds without data returns (nil, nil), not an error.          *)
C13_EmptyBudgetReturnsNilNil ==
    C13_Witness => (wret.data = << >> /\ wret.err = Nil)

(* C13, amended: a WaitForMetricSeries whose every query over the full     *)
(* budget succeeds without data (each evaluating to (nil, nil)) returns    *)
(* no series and the exhausted-retries error.                              *)
C13_EmptyBudgetReturnsExhaustedRetries ==
    C13_Witness => (wret.data = << >> /\ IsExhaustedRetriesMetricError(wret.err))

(* A call of WaitForMetricSeries that asks for two series has returned     *)
(* after every query found fewer series with points than that.             *)
C14_Witness ==
    /\ fn = "WaitForMetricSeries"
    /\ args.minimumRequiredSeries = 2
    /\ wpc = "done"
    /\ queries = QueryMaxAttempts
    /\ answers = {Res(<< >>, ErrInvalidIteratorLength)}

(* C14: a metrics query that asks for at least 2 series and whose iterator *)
(* yields exactly 1 series with points evaluates, once the iterator is     *)
(* done, to ErrInvalidIteratorLength, which is neither data nor the        *)
(* confirmed-empty (nil, nil).  WaitForMetricSeries retries it as it does  *)
(* a retriable error, never beyond QueryMaxAttempts queries, and then      *)
(* returns an error.                                                       *)
C14_TooFewSeriesIsInvalidIteratorLength ==
    /\ \A it \in [items : ItemLists, end : {Done}] :
         Cardinality({i \in DOMAIN it.items : it.items[i] > 0}) = 1 =>
             /\ nonEmptySeriesList(it, 2) = Res(<< >>, ErrInvalidIteratorLength)
             /\ nonEmptySeriesList(it, 2) # Res(<< >>, Nil)
             /\ isRetriableLookupError(nonEmptySeriesList(it, 2).err)
    /\ (/\ fn = "WaitForMetricSeries"
        /\ args.minimumRequiredSeries = 2
        /\ answers = {Res(<< >>, ErrInvalidIteratorLength)}) =>
           /\ queries <= QueryMaxAttempts
           /\ wpc = "done" =>
                 /\ queries = QueryMaxAttempts
                 /\ wret.data = << >>
                 /\ wret.err # Nil

(* C15: AssertMetricMissing returns success when its attempts all return   *)
(* confirmed-empty (it returns at the first of them), and returns an error *)
(* at once when an attempt returns data; after it has returned it issues   *)
(* no further query.                                                       *)
C15_AssertMetricMissingOnEmptyAndOnData ==
    [][/\ (fn = "AssertMetricMissing" /\ queries' = queries + 1) =>
             /\ lastRes' = Res(<< >>, Nil) => (wpc' = "done" /\ wret'.err = Nil)
             /\ (lastRes'.err = Nil /\ lastRes'.data # << >>) =>
                    (wpc' = "done" /\ wret'.err # Nil)
       /\ (fn = "AssertMetricMissing" /\ wpc = "done") => queries' = queries]_vars

(* AssertMetricMissing has returned an error for data found by its third   *)
(* query.                                                                  *)
C15_Witness ==
    /\ fn = "AssertMetricMissing"
    /\ wpc = "done"
    /\ queries = 3
    /\ lastRes.err = Nil
    /\ lastRes.data # << >>
    /\ wret.err # Nil

(* C16: AssertMetricMissing tolerates a missing descriptor (NotFound), and *)
(* the other retriable errors, within its budget of                        *)
(* queryMaxAttemptsMetricMissing queries only.  For a Prometheus metric it *)
(* returns success when every one of the attempts failed with NotFound; it *)
(* returns an error when no attempt completed without error and the metric *)
(* is not a Prometheus metric or an attempt failed with a retriable error  *)
(* other than NotFound; a non-retriable error is returned at once.         *)
C16_DescriptorNotFoundWithinBudget ==
    LET NotFound  == Status("NotFound")
        Retriable == {NotFound, Status("Internal"), Status("ResourceExhausted")}
        errs      == {r.err : r \in answers}
    IN fn = "AssertMetricMissing" =>
         /\ queries <= queryMaxAttemptsMetricMissing
         /\ (lastRes.err \in Retriable /\ queries < queryMaxAttemptsMetricMissing) =>
                wpc \in {"sleep", "query"}
         /\ (/\ wpc = "done"
             /\ args.isPrometheus
             /\ queries = queryMaxAttemptsMetricMissing
             /\ errs = {NotFound}) => wret.err = Nil
         /\ (/\ wpc = "done"
             /\ queries = queryMaxAttemptsMetricMissing
             /\ errs \subseteq Retriable
             /\ (~args.isPrometheus \/ errs # {NotFound})) => wret.err # Nil
         /\ (lastRes.err # Nil /\ lastRes.err \notin Retriable) =>
                (wpc = "done" /\ wret.err # Nil)
         /\ \A e \in errs : (e # Nil /\ e \notin Retriable) => e = lastRes.err

(* AssertMetricMissing has returned success for a Prometheus metric after  *)
(* every one of its attempts failed with NotFound.                         *)
C16_Witness ==
    /\ fn = "AssertMetricMissing"
    /\ args.isPrometheus
    /\ wpc = "done"
    /\ queries = queryMaxAttemptsMetricMissing
    /\ answers = {Res(<< >>, Status("NotFound"))}
    /\ descriptorNotFoundErrCount = queryMaxAttemptsMetricMissing
    /\ wret.err = Nil

(* C17: AssertLogMissing returns success only if one of its queries        *)
(* completed without error and matched no log entry; a run in which every  *)
(* query ended in an error is not reported as success.                     *)
C17_LogMissingNeedsSuccessfulQuery ==
    (fn = "AssertLogMissing" /\ wpc = "done" /\ wret.err = Nil) =>
        Res(<< >>, Nil) \in answers

(* C18: in WaitForMetricSeries, WaitForTrace and QueryLog the answer of a  *)
(* query is handled as exactly one of found, confirmed-empty and error:    *)
(* data is returned at once; a non-retriable error is returned at once,    *)
(* with no further query; a retriable error and confirmed-empty lead to a  *)
(* sleep, and the sleep to the next turn of the loop.  One call never      *)
(* issues more queries than its budget (QueryMaxAttempts,                  *)
(* TraceQueryMaxAttempts, maxAttempts), and when the budget is used up it  *)
(* returns an exhausted-retries error.                                     *)
C18_PollingWaiterOutcomes ==
    [][LET res       == lastRes'
           isFound   == res.data # << >> /\ res.err = Nil
           isEmpty   == res.data = << >> /\ res.err = Nil
           retriable ==
               IF fn = "QueryLog"
               THEN \/ Contains(res.err, "Internal error encountered")
                    \/ Contains(res.err, "Quota")
               ELSE res.err \in {ErrInvalidIteratorLength, Status("NotFound"),
                                 Status("Internal"), Status("ResourceExhausted")}
       IN (fn \in {"WaitForMetricSeries", "WaitForTrace", "QueryLog"}
             /\ args.minimumRequiredSeries >= 1) =>
            /\ queries' <= Budget
            /\ queries' = queries + 1 =>
                 /\ wpc = "query"
                 /\ isFound \/ isEmpty \/ res.err # Nil
                 /\ isFound => (wpc' = "done" /\ wret' = Res(res.data, Nil))
                 /\ (res.err # Nil /\ ~retriable) =>
                        (wpc' = "done" /\ wret'.data = << >> /\ wret'.err # Nil)
                 /\ (isEmpty \/ (res.err # Nil /\ retriable)) =>
                        (wpc' = "sleep" /\ wret' = wret)
            /\ wpc = "sleep" => (wpc' = "query" /\ queries' = queries)
            /\ (wpc = "query" /\ queries' = queries) =>
                 /\ queries = Budget
                 /\ wpc' = "done"
                 /\ wret'.data = << >>
                 /\ wret'.err # Nil
                 /\ exhaustedRetriesSuffix \in wret'.err[1]
            /\ wpc = "done" => queries' = queries]_vars

(* QueryLog has used up LogQueryMaxAttempts queries, which found nothing   *)
(* or failed with a quota error, and returned the exhausted-retries error. *)
C18_Witness ==
    /\ fn = "QueryLog"
    /\ args.maxAttempts = LogQueryMaxAttempts
    /\ wpc = "done"
    /\ queries = LogQueryMaxAttempts
    /\ answers = {Res(<< >>, Nil), Res(<< >>, Err({"Quota"}))}
    /\ exhaustedRetriesSuffix \in wret.err[1]

(* C19: whenever WaitForMetricSeries returns a nil error, the slice it     *)
(* returns holds at least minimumRequiredSeries series, hence at least     *)
(* one, and every series in it has a point; so WaitForMetric, which asks   *)
(* for one series, finds element 0 and does not panic.                     *)
C19_ReturnedSeriesAreEnoughAndNonEmpty ==
    /\ (/\ fn \in {"WaitForMetricSeries", "WaitForMetric"}
        /\ wpc = (IF fn = "WaitForMetric" THEN "seriesReturned" ELSE "done")
        /\ ~wret.panic
        /\ wret.err = Nil) =>
           /\ Len(wret.data) >= args.minimumRequiredSeries
           /\ Len(wret.data) >= 1
           /\ \A i \in 1..Len(wret.data) : wret.data[i] >= 1
    /\ (fn = "WaitForMetric" /\ wpc = "done") =>
           /\ ~wret.panic
           /\ wret.err = Nil => (Len(wret.data) = 1 /\ wret.data[1] >= 1)

(* WaitForMetric has returned the first of the two series with points that *)
(* its third query found.                                                  *)
C19_Witness ==
    /\ fn = "WaitForMetric"
    /\ wpc = "done"
    /\ queries = 3
    /\ Len(lastRes.data) = 2
    /\ wret = Res(<<lastRes.data[1]>>, Nil)

(* C20: when a waiter gives up because its attempts are used up on         *)
(* retriable errors, the exhausted-retries error it returns carries the    *)
(* number of attempts made and the underlying cause, the last retriable    *)
(* error.                                                                  *)
C20_ExhaustedRetriesCarriesCountAndCause ==
    (/\ fn \in {"WaitForMetricSeries", "WaitForTrace", "QueryLog"}
     /\ wpc = "done"
     /\ wret.err # Nil
     /\ exhaustedRetriesSuffix \in wret.err[1]
     /\ lastRes.err # Nil) =>
        /\ lastRes.err[1] \subseteq wret.err[1]
        /\ ToString(queries) \in wret.err[1]

(* C21: the zone picker is a deterministic weighted round-robin. With N    *)
(* the sum of the weights of ZONES (1 for a zone without one), the i-th    *)
(* call of Next() returns the zone that the configuration alone fixes for  *)
(* i, and every N consecutive calls return each zone exactly as often as   *)
(* its weight.                                                             *)
C21_WeightedRoundRobin ==
    helper = "zonePicker.Next" =>
        LET zones  == zonePicker.zones
            W(e)   == IF Len(e) = 3 THEN e[3] ELSE 1
            Sum[i \in 0..Len(zones)] == IF i = 0 THEN 0 ELSE Sum[i - 1] + W(zones[i])
            N      == Sum[Len(zones)]
            \* the zone whose share of the rotation holds slot s (from 0)
            ZoneAt(s) == zones[CHOOSE k \in 1..Len(zones) :
                                   Sum[k - 1] <= s /\ s < Sum[k]][1]
        IN /\ \A i \in 1..Len(hret) : hret[i] = ZoneAt((i - 1) % N)
           /\ \A i \in 1..Len(hret) :
                i + N - 1 <= Len(hret) =>
                    \A k \in 1..Len(zones) :
                        Cardinality({j \in i..(i + N - 1) : hret[j] = zones[k][1]})
                            = W(zones[k])

C21_Witness ==
    /\ helper = "zonePicker.Next"
    /\ zonePicker.zones = <<<<"A", "=", 2>>, <<"B">>>>
    /\ hret = <<"A", "A", "B", "A", "A">>

(* C22: concurrent calls of Next() never get the same cursor slot twice    *)
(* and never skip one: the k calls made so far took k consecutive slots of *)
(* the rotation, one call at a time.                                       *)
C22_NextHandsConsecutiveSlots ==
    helper = "zonePicker.Next" =>
        LET N == Len(zonePicker.slots)
        IN /\ \A i \in 1..Len(zonePicker.handed) :
                zonePicker.handed[i].slot = (i - 1) % N
           /\ Cardinality({g \in Goroutines : gpc[g] # "idle"}) <= 1
           /\ mutex = 0 =>
                /\ Len(zonePicker.handed) = zonePicker.calls
                /\ zonePicker.cursor = zonePicker.calls % N

C22_Witness ==
    /\ helper = "zonePicker.Next"
    /\ Len(zonePicker.handed) = MaxCalls
    /\ {zonePicker.handed[i].g : i \in 1..MaxCalls} = Goroutines
    /\ zonePicker.handed[1].g # 1

(* C23: runCommand with an empty argument vector returns an error at once: *)
(* no subprocess is ever started, no copier runs, and the CommandOutput it *)
(* returns is empty.                                                       *)
C23_EmptyArgsStartNothing ==
    (helper = "runCommand" /\ Len(proc.args) < 1) =>
        /\ ~proc.started
        /\ proc.pc \in {"call", "done"}
        /\ proc.interleaved = << >>
        /\ proc.pc = "done" =>
             /\ hret.err # Nil
             /\ hret.err[1].msg = "runCommand() needs a nonempty argument slice"
             /\ hret.output = [Stdout |-> << >>, Stderr |-> << >>]

C23_Witness ==
    /\ helper = "runCommand"
    /\ proc.args = << >>
    /\ proc.pc = "done"
    /\ hret.err # Nil

(* C24: when the subprocess fails, by a non-zero exit status or by being   *)
(* killed at cancellation, the error runCommand returns carries all that   *)
(* the subprocess wrote to stdout and stderr together, and the             *)
(* CommandOutput it returns still holds the captured stdout and stderr.    *)
C24_FailureKeepsOutput ==
    (helper = "runCommand" /\ proc.pc = "done" /\ proc.started /\ proc.err # Nil) =>
        LET IsOut(b) == b \in {"o1", "o2", "o3", "o4"}
            IsErr(b) == b \in {"e1", "e2", "e3"}
        IN /\ hret.err # Nil
           /\ hret.err[1].msg = "Command failed"
           /\ hret.err[1].err = proc.err
           /\ Len(hret.err[1].text) = Len(hret.output.Stdout) + Len(hret.output.Stderr)
           /\ SelectSeq(hret.err[1].text, IsOut) = hret.output.Stdout
           /\ SelectSeq(hret.err[1].text, IsErr) = hret.output.Stderr
           /\ hret.output.Stdout = proc.builders[1]
           /\ hret.output.Stderr = proc.builders[2]

C24_Witness ==
    /\ helper = "runCommand"
    /\ proc.pc = "done"
    /\ proc.err = Err({"signal: killed"})
    /\ hret.err # Nil
    /\ hret.output = [Stdout |-> <<"o1", "o2">>, Stderr |-> <<"e1", "e2", "e3">>]
    /\ hret.err[1].text = <<"e1", "e2", "o1", "o2", "e3">>

(* C25: what the two copiers write through the ThreadSafeWriter is an      *)
(* interleaving of their chunks that keeps the order: under every          *)
(* interleaving of the copiers each chunk written so far is there exactly  *)
(* once and in one piece, and the chunks of one stream are in the order in *)
(* which the stream carried them.                                          *)
C25_InterleavingKeepsChunks ==
    helper = "runCommand" =>
        LET text     == proc.interleaved
            IsOut(b) == b \in {"o1", "o2", "o3", "o4"}
            IsErr(b) == b \in {"e1", "e2", "e3"}
            Chunks   == {<<"o1", "o2">>, <<"o3", "o4">>, <<"e1", "e2">>, <<"e3">>}
            \* the bytes of the chunk a copier is in the middle of writing
            Partial(g) == IF proc.pc = "running" /\ gpc[g] = "locked"
                          THEN greg[g] ELSE 0
            Written(g) == IF proc.pc = "running" /\ gpc[g] \in {"write", "locked"}
                          THEN SubSeq(proc.builders[g], 1,
                                      Len(proc.builders[g]) - Len(Head(proc.pending[g])))
                               \o SubSeq(Head(proc.pending[g]), 1, Partial(g))
                          ELSE proc.builders[g]
        IN /\ SelectSeq(text, IsOut) = Written(1)
           /\ SelectSeq(text, IsErr) = Written(2)
           /\ \A i \in 1..Len(text) : \A j \in 1..Len(text) :
                text[i] = text[j] => i = j
           /\ \A c \in Chunks : \A i \in 1..Len(text) :
                text[i] = c[1] =>
                    \A k \in 2..Len(c) :
                        i + k - 1 <= Len(text) => text[i + k - 1] = c[k]
           /\ \A c \in Chunks : \A i \in 1..Len(text) : \A k \in 2..Len(c) :
                (text[i] = c[1] /\ i + k - 1 > Len(text)) =>
                    \E g \in DOMAIN proc.pending : Partial(g) = Len(text) - i + 1

C25_Witness ==
    /\ helper = "runCommand"
    /\ proc.pc = "done"
    /\ proc.interleaved = <<"o1", "o2", "e1", "e2", "o3", "o4", "e3">>

(* C26: RunScriptRemotely on Windows first uploads the script to a freshly *)
(* generated remote path and only then sends a remote command, which runs  *)
(* that file: the script itself is never part of the encoded command nor   *)
(* of its stdin. When the upload fails no such command is sent and the     *)
(* upload's error is returned.                                             *)
C26_WindowsScriptIsUploadedThenRun ==
    (helper = "RunScriptRemotely" /\ xfer.windows) =>
        LET log == xfer.log
            UploadFailed == \E j \in 1..Len(log) :
                                log[j].do # "invoke" /\ log[j].err # Nil
        IN /\ \A i \in 1..Len(log) :
                log[i].do = "invoke" =>
                    /\ i = Len(log)
                    /\ \E j \in 1..(i - 1) : log[j] = [do |-> "write", err |-> Nil]
                    /\ \E j \in 1..(i - 1) : log[j] = [do |-> "pull", err |-> Nil]
                    /\ ~UploadFailed
                    /\ xfer.remotePath = xfer.scriptPath
                    /\ xfer.scriptPath[2] \notin xfer.used
                    /\ log[i].stdin = << >>
                    /\ log[i].command[1] = "powershell -NonInteractive -EncodedCommand "
                    /\ log[i].command[2].utf16base64
                           = <<"powershell -File ">> \o xfer.scriptPath \o <<" ", "flags">>
                    /\ \A k \in 1..Len(log[i].command[2].utf16base64) :
                           log[i].command[2].utf16base64[k] # "scriptContents"
           /\ (xfer.pc = "done" /\ UploadFailed) =>
                /\ \A i \in 1..Len(log) : log[i].do # "invoke"
                /\ hret.err = xfer.err
                /\ hret.err # Nil
           /\ (xfer.pc = "done" /\ ~UploadFailed) =>
                /\ log[Len(log)].do = "invoke"
                /\ hret.err = log[Len(log)].err

C26_Witness ==
    /\ helper = "RunScriptRemotely"
    /\ xfer.windows
    /\ xfer.pc = "done"
    /\ xfer.used = {"u1"}
    /\ xfer.scriptPath = <<"C:\\", "u2", ".ps1">>
    /\ Len(xfer.log) = 4
    /\ xfer.log[4].do = "invoke"
    /\ hret.err = Nil

(* C27: once UploadContent has written the object into the bucket, it      *)
(* tries to delete it before it returns, whether the installation of       *)
(* gsutil and the pull by the VM succeeded or failed; and when the         *)
(* deletion fails it returns an error, also when the pull succeeded.       *)
C27_UploadedObjectIsDeletedBeforeReturn ==
    (helper \in {"UploadContent", "RunScriptRemotely"}
        /\ xfer.pc \in {"upload.return", "done"}) =>
        LET log == xfer.log
            Written == \E j \in 1..Len(log) : log[j] = [do |-> "write", err |-> Nil]
            Deletes == {j \in 1..Len(log) : log[j].do = "delete"}
        IN /\ Written =>
                /\ Cardinality(Deletes) = 1
                /\ \A j \in Deletes : \A k \in 1..Len(log) :
                     log[k].do \in {"write", "install", "pull"} => k < j
                /\ \A j \in Deletes :
                     /\ log[j].err # Nil => xfer.err # Nil
                     /\ log[j].err = Nil => xfer.bucket = {}
           /\ ~Written => Deletes = {}
           /\ (helper = "UploadContent" /\ xfer.pc = "done") => hret.err = xfer.err

C27_Witness ==
    /\ helper = "UploadContent"
    /\ xfer.pc = "done"
    /\ ~xfer.windows
    /\ xfer.log = <<[do |-> "write", err |-> Nil], [do |-> "install", err |-> Nil],
                    [do |-> "pull", err |-> Nil],
                    [do |-> "delete", err |-> Err({"object.Delete"})]>>
    /\ hret.err # Nil
    /\ xfer.bucket # {}

(* C28: under every interleaving of concurrent logClientFactory.new calls  *)
(* at most one client is constructed and cached for a project and every    *)
(* call that succeeds for the project returns that client; a construction  *)
(* that fails caches nothing, so that a later call constructs again.       *)
C28_OneLogClientPerProject ==
    helper = "logClientFactory.new" =>
        LET tried    == logClients.tried
            Built(p) == {i \in 1..Len(tried) : tried[i].project = p /\ tried[i].client # 0}
            Failed(p) == {i \in 1..Len(tried) : tried[i].project = p /\ tried[i].client = 0}
        IN /\ \A p \in DOMAIN logClients.clients :
                /\ Cardinality(Built(p)) <= 1
                /\ Built(p) = {} => logClients.clients[p] = 0
                /\ \A i \in Built(p) :
                     /\ logClients.clients[p] = tried[i].client
                     /\ \A j \in Failed(p) : j < i
           /\ \A i \in 1..Len(hret) :
                IF hret[i].err = Nil
                THEN /\ hret[i].client # 0
                     /\ hret[i].client = logClients.clients[hret[i].project]
                ELSE /\ hret[i].client = 0
                     /\ Contains(hret[i].err,
                           "logClientFactory.new() could not construct new logadmin.Client")

C28_Witness ==
    /\ helper = "logClientFactory.new"
    /\ Len(hret) >= 4
    /\ hret[1].project = "p1" /\ hret[1].err # Nil
    /\ hret[2].project = "p1" /\ hret[2].err = Nil
    /\ hret[3].project = "p1" /\ hret[3].client = hret[2].client
    /\ hret[4].project = "p2" /\ hret[4].err = Nil

(* C29: waitForStartLinux reports readiness only after a poll of           *)
(* `systemctl is-system-running` that answered "running" or "degraded".    *)
(* A poll with any other state, or one that failed at the level of ssh,    *)
(* never ends the wait with success: it is followed by another poll unless *)
(* the retry policy is used up, which is after 30 retries on SUSE images   *)
(* or when the context is done, and then the wait fails.                   *)
C29_ReadyOnlyAfterRunningOrDegraded ==
    helper = "waitForStartLinux" =>
        LET suse   == IsSUSEImageSpec(startup.image)
            Ready  == {"running", "degraded"}
            UsedUp == \/ Contains(hret.err, "context deadline exceeded")
                      \/ suse /\ startup.n = 30 /\ startup.polls = 31
        IN /\ startup.ready => startup.last.state \in Ready
           /\ (startup.pc = "done" /\ hret.err = Nil) => startup.ready
           /\ startup.pc \in {"sles", "sudo"} => (suse /\ startup.ready)
           /\ (startup.pc = "poll" /\ startup.polls > 0) =>
                /\ startup.last.state \notin Ready
                /\ startup.polls = startup.n
                /\ now <= startup.deadline
           /\ (startup.pc = "poll" /\ suse) => startup.n <= 30
           /\ (startup.pc = "done" /\ ~startup.ready) =>
                /\ startup.last.state \notin Ready
                /\ Contains(hret.err, startupFailedMessage)
                /\ UsedUp

C29_Witness ==
    /\ helper = "waitForStartLinux"
    /\ startup.image = SLES15
    /\ startup.pc = "done"
    /\ hret.err = Nil
    /\ startup.polls = 4
    /\ startup.last.state = "degraded"

(* C30: a configuration error in the VMOptions makes CreateInstance fail   *)
(* after exactly one attempt. With an image spec that is missing or has    *)
(* neither ':' nor '=', or with metadata holding enable-oslogin, ssh-keys, *)
(* startup-script (Linux), sysprep-specialize-script-cmd or                *)
(* enable-windows-ssh (Windows), the attempt is never retried, no          *)
(* provisioning command is issued and no deletion is attempted.            *)
C30_ConfigErrorFailsAfterOneAttempt ==
    LET image    == options.ImageSpec
        Reserved == {"enable-oslogin", "ssh-keys"}
                      \cup (IF Len(image) >= 1 /\ image[1] = "windows-"
                            THEN {"sysprep-specialize-script-cmd", "enable-windows-ssh"}
                            ELSE {"startup-script"})
        ConfigError == \/ \A i \in 1..Len(image) : image[i] \notin {":", "="}
                       \/ options.Metadata \cap Reserved # {}
    IN (env = "config" /\ kind = "vm" /\ ConfigError) =>
          /\ pc \in {"start", "createFunc", "attemptDone", "returned"}
          /\ attempts <= 1
          /\ now = 0
          /\ cloud = NoCloud
          /\ made = NoCloud
          /\ ~cleanupCalled
          /\ delCmds = 0
          /\ callerDeletes = 0
          /\ pc = "attemptDone" => (failedAt = "args" /\ errToReturn # Nil)
          /\ pc = "returned" =>
               /\ attempts = 1
               /\ ret.vm = FALSE
               /\ ret.err # Nil
               /\ returnReason = "permanent"

C30_Witness ==
    /\ env = "config"
    /\ kind = "vm"
    /\ options = [ImageSpec |-> Debian12, Metadata |-> {"test-key", "ssh-keys"}]
    /\ pc = "returned"
    /\ attempts = 1
    /\ Contains(ret.err, "the 'ssh-keys' metadata key is reserved for framework use")

(* C31: every VM that SetupVM (or SetupManagedInstanceGroupVM) has handed  *)
(* to the test has its deletion invoked at the end of the test, whether    *)
(* the test passes, fails or aborts; and when the creation fails, SetupVM  *)
(* aborts the test and no deletion is registered or invoked.               *)
C31_SetupVMDeletesAtTestEnd ==
    /\ (test.pc = "body") ~> (test.cleaned /\ test.outcome # "")
    /\ [](test.cleaned => (ret.err = Nil /\ test.outcome \in {"pass", "fail", "abort"}))
    /\ []((test.pc # "setup" /\ ret.err # Nil) =>
            /\ test.pc = "end"
            /\ test.outcome = "abort"
            /\ test.cleanups = 0
            /\ ~test.cleaned
            /\ callerDeletes = 0)

C31_Witness ==
    /\ env = "setup"
    /\ test.pc = "end"
    /\ test.cleaned
    /\ test.outcome = "abort"
    /\ test.cleanups = 0
    /\ pc = "returned"
    /\ vm.AlreadyDeleted

(* C32: AlreadyDeleted becomes true only in the step in which a deletion   *)
(* call ends with success. A deletion call that returns an error leaves    *)
(* the VM object as it was, AlreadyDeleted false, so that a later deletion *)
(* call does not skip: it enters its loop and has issued a deletion        *)
(* command when it returns.                                                *)
C32_AlreadyDeletedOnlyOnSuccess ==
    [][LET Loops    == {"tryDelete", "tryDeleteMIG", "tryDeleteTemplate"}
           Returns  == pc \in Loops /\ pc' \notin Loops
       IN /\ (vm'.AlreadyDeleted /\ ~vm.AlreadyDeleted) =>
                (Returns /\ delRet' = Nil /\ pc \in {"tryDelete", "tryDeleteTemplate"})
          /\ (Returns /\ delRet' # Nil) => (vm' = vm /\ ~vm'.AlreadyDeleted)
          /\ (pc = "delete" /\ pc' # "delete" /\ ~vm.AlreadyDeleted) =>
                (pc' \in Loops /\ vm' = vm)
          /\ Returns => delCmds' + templCmds' >= 1
          /\ (pc \notin Loops /\ pc' \notin Loops /\ pc \notin {"createFunc", "extract"}) =>
                vm' = vm
      ]_vars

C32_Witness ==
    /\ env = "deleteFaults"
    /\ kind = "vm"
    /\ callerDeletes = 2
    /\ pc = "returned"
    /\ delCmds >= 2
    /\ delRet # Nil
    /\ ~vm.AlreadyDeleted
    /\ vm.ID

(* C33: whether CreateInstance retries after a failed attempt is decided   *)
(* by the attempt's own failure alone: when that failure is one the        *)
(* classifier takes for permanent, CreateInstance returns after this       *)
(* attempt, whatever the error of the cleanup deletion appended to it.     *)
C33_RetryDecidedByOwnFailure ==
    [][(/\ kind = "vm"
        /\ pc = "attemptDone"
        /\ errToReturn # Nil
        /\ ~shouldRetryCreateVM(Err(errToReturn[1]), options))
          => (pc' = "returned" /\ returnReason' = "permanent")
      ]_vars

(* C34: when a DeleteManagedInstanceGroupVM call has failed part-way (the  *)
(* group is gone or never existed, the instance template is still there),  *)
(* repeated later calls against a backend that accepts every deletion of   *)
(* an existing resource and answers "not found" for a missing one          *)
(* eventually delete the instance template and set AlreadyDeleted.         *)
C34_RepeatedCallsDeleteTemplate ==
    (/\ kind = "mig"
     /\ pc = "returned"
     /\ callerDeletes >= 1
     /\ delRet # Nil
     /\ ~cloud.group
     /\ cloud.templ)
        ~> (~cloud.templ /\ vm.AlreadyDeleted)

(* C35: within one CreateInstance call a new attempt starts only after the *)
(* cleanup deletion of the failed attempt before it has returned; and as   *)
(* long as every cleanup deletion of the call succeeded, at most one       *)
(* instance created by the call exists at any time, and when the call      *)
(* returns exactly the returned VM exists (success) or none (error).       *)
C35_AtMostOneInstancePerCall ==
    LET cleanupsSucceeded ==
            /\ cloud.earlier.deleteFailed = 0
            /\ (cleanupCalled /\ pc \in {"attemptDone", "createFunc", "returned"})
                  => delRet = Nil
        instances == cloud.earlier.undeleted + cloud.earlier.deleteFailed
                        + (IF cloud.inst THEN 1 ELSE 0)
    IN (kind = "vm" /\ callerDeletes = 0) =>
          /\ (pc = "createFunc" /\ attempts >= 1 /\ cleanupCalled)
                => (delCaller = "cleanup" /\ delCmds >= 1)
          /\ cleanupsSucceeded => instances <= 1
          /\ (cleanupsSucceeded /\ pc = "returned")
                => instances = (IF ret.err = Nil THEN 1 ELSE 0)

(* C36: an attempt of CreateInstance that failed in the readiness check is *)
(* followed by a new attempt with a fresh VM only for the known-flaky      *)
(* families: the Linux startup timeout exactly on a SUSE image, the        *)
(* Windows startup failure exactly on a Windows core image, a prepareSLES  *)
(* failure always; on any other image the readiness failure is permanent   *)
(* and CreateInstance returns after that attempt.                          *)
C36_ReadinessRetriedOnlyForFlakyFamilies ==
    [][LET image == options.ImageSpec
           flaky ==
              \/ Contains(errToReturn, startupFailedMessage) /\ IsSUSEImageSpec(image)
              \/ Contains(errToReturn, windowsStartupFailedMessage) /\ IsWindowsCore(image)
              \/ Contains(errToReturn, prepareSLESMessage)
       IN (kind = "vm" /\ pc = "attemptDone" /\ failedAt = "verify")
             => IF flaky
                THEN pc' = "createFunc" \/ (pc' = "returned" /\ returnReason' = "deadline")
                ELSE pc' = "returned" /\ returnReason' = "permanent"
      ]_vars

(* C37: DeleteInstance always terminates and issues a bounded number of    *)
(* deletion commands per call: at most 11 (one and 10 retries, 30 s        *)
(* apart), and none once the 10-minute deadline of its own context has     *)
(* expired, even if every attempt fails with a retriable error.            *)
C37_DeleteInstanceBounded ==
    /\ [](kind = "vm" => delCmds <= 11)
    /\ [][(kind = "vm" /\ delCmds' > delCmds)
             => (pc = "tryDelete" /\ delCmds' = delCmds + 1 /\ now < delDeadline)]_vars
    /\ [][(kind = "vm" /\ pc = "tryDelete" /\ pc' = "tryDelete")
             => (now' <= delDeadline /\ now' - now >= deleteBackoff)]_vars
    /\ (kind = "vm" /\ pc = "delete") ~> (pc \in {"attemptDone", "returned"})

(* DeleteInstance returned after 11 commands that all failed on the quota. *)
C37_Witness ==
    /\ kind = "vm"
    /\ pc = "returned"
    /\ callerDeletes = 1
    /\ delCmds = 11
    /\ numTries = deleteMaxRetries
    /\ Contains(delRet, "Quota")
    /\ ~vm.AlreadyDeleted

(* C38: the documented retry budgets are what the loops compute in integer *)
(* arithmetic: an exhausted WaitForMetricSeries has slept 40 x 10 s = 6 min *)
(* 40 s in total, an exhausted QueryLog with LogQueryMaxAttempts 15 x 30 s  *)
(* = 7 min 30 s; TraceQueryMaxAttempts is QueryMaxAttempts /                *)
(* traceQueryDerate in integer division, and two trace queries are         *)
(* traceQueryDerate x queryBackoffDuration = 30 seconds apart.             *)
C38_RetryBudgetsAsDocumented ==
    LET exhausted == wpc = "done" /\ qAttempt = Budget + 1 IN
    env = "backend" =>
      /\ (fn = "WaitForMetricSeries" /\ exhausted)
            => (queries = 40 /\ now = 6 * 60 + 40)
      /\ (fn = "QueryLog" /\ args.maxAttempts = LogQueryMaxAttempts /\ exhausted)
            => (queries = 15 /\ now = 7 * 60 + 30)
      /\ (fn = "WaitForTrace" /\ exhausted)
            => queries = QueryMaxAttempts \div traceQueryDerate
      /\ (fn = "WaitForTrace" /\ wpc \in {"query", "done"})
            => now = (qAttempt - 1) * 30

====
